---- MODULE Spec2Model ----
(***************************************************************************)
(* Model of the smart-glasses guidance pipeline backbone:                  *)
(*   core_platform/frame_bus.py     FrameBus   (latest-frame-wins pub-sub)  *)
(*   core_platform/result_bus.py    ResultBus  (typed event pub-sub)        *)
(*   core_platform/control_state.py ControlState (lock-guarded settings)    *)
(*   modules/*/module.py            the stage consumption loops             *)
(*                                                                         *)
(* The program is asyncio code.  A coroutine runs without interruption     *)
(* between two suspension points; the bus lock is never held across one,   *)
(* so `async with self._lock` never waits and the bodies of publish,       *)
(* shutdown, registration and deregistration are atomic steps.  The only   *)
(* suspension point of a consumer is `await queue.get()` on an empty       *)
(* queue, so one loop iteration of a consumer is one action.               *)
(***************************************************************************)
EXTENDS Integers, Sequences, FiniteSets, TLC

(***************************************************************************)
(* Bounds of the model.                                                    *)
(***************************************************************************)
FBQueueSize == 2        \* FrameBus(queue_size): the default of frame_bus.py
RBQueueSize == 2        \* ResultBus(queue_size): 100 by default, reduced
MaxFrames == 3          \* number of FrameBus.publish calls explored
MaxEvents == 3          \* number of ResultBus.publish calls explored
MaxTracksPerCycle == 1  \* TrackUpdates published for one DetectionResult
MaxKwargs == 2          \* keyword arguments of one ControlState.update call
MantissaBits == 3       \* significant bits of a float: 53 in Python, reduced
MaxTrackId == 2         \* track ids handed out by one Tracker
MaxTrackCalls == 4      \* update / mark_missed calls followed on one track
MaxAge == 2             \* Tracker(max_age): 30 in TrackerModule, reduced
MaxDetections == 2      \* detections of one DetectionResult
MaxGuidance == 2        \* NavigationGuidance events FusionModule decides on
MaxUpdates == 3         \* TrackUpdates the tracker publishes to navigation and fusion
MaxPipelineFrames == 1  \* frames published to the pipeline followed to its end

(***************************************************************************)
(* Subscribers.  Every call of subscribe()/subscribe_all() creates one     *)
(* asyncio.Queue; a subscriber is named after the consumer that made the   *)
(* call.                                                                   *)
(***************************************************************************)
FBClients == {"viewer1", "viewer2"}          \* generic FrameBus consumers
RBClients == {"listener", "typed"}           \* subscribe_all / subscribe_type

\* The pipeline stages of ReplaySystem.modules and the tasks their start()
\* creates; each task consumes one bus subscription.
Modules == {"ObjectDetection", "Tracker", "Navigation", "Fusion"}
FBTasks == {"process_frames"}
RBTasks == {"process_detections", "process_tracks", "process_guidance",
            "monitor_track_stability"}
Tasks == FBTasks \cup RBTasks
ModuleOf == [process_frames |-> "ObjectDetection",
             process_detections |-> "Tracker",
             process_tracks |-> "Navigation",
             process_guidance |-> "Fusion",
             monitor_track_stability |-> "Fusion"]

\* The tasks of each module, in the order start() creates them.
TasksOf == [ObjectDetection |-> <<"process_frames">>,
            Tracker |-> <<"process_detections">>,
            Navigation |-> <<"process_tracks">>,
            Fusion |-> <<"process_guidance", "monitor_track_stability">>]

FBSubs == FBClients \cup FBTasks
RBSubs == RBClients \cup RBTasks

\* Event types the generic clients of the result bus publish, and all the
\* event types of the pipeline.
EventTypes == {"DetectionResult", "TrackUpdate"}
PipelineEventTypes == EventTypes \cup {"NavigationGuidance",
                                       "FusionAnnouncement", "SystemMetric"}

\* What each ResultBus consumer subscribes to: subscribe_all() or
\* subscribe_type(T).
RBFilter == [listener |-> "all",
             typed |-> "DetectionResult",
             process_detections |-> "DetectionResult",
             process_tracks |-> "TrackUpdate",
             process_guidance |-> "NavigationGuidance",
             monitor_track_stability |-> "TrackUpdate"]

\* The shutdown signal put on the queues: Python's None.
None == [type |-> "None", id |-> 0]
Frame(n) == [type |-> "FramePacket", id |-> n]
Event(t, n) == [type |-> t, id |-> n]

VARIABLES
    fb_subscribers,     \* FrameBus.subscribers: list of queues (by owner)
    fb_queue,           \* contents of each subscriber's asyncio.Queue
    fb_frame_count,     \* FrameBus._frame_count
    fb_dropped_count,   \* FrameBus._dropped_count
    fb_pc,              \* position of each consumer in subscribe()
    fb_received,        \* history: frames yielded to each consumer
    fb_shutdown_called, \* history: FrameBus.shutdown() has been called
    fb_at_shutdown,     \* history: subscribers registered at a shutdown()
    fb_raised,          \* history: a publish() call raised to its caller
    fb_since,           \* history: _frame_count when the queue was registered
    fb_hist,            \* history: the publish calls made, and per subscriber
                        \* the items evicted from and the frames put on its queue
    rb_subscribers,     \* ResultBus.subscribers
    rb_queue,
    rb_event_count,     \* ResultBus._event_count
    rb_pc,
    rb_taken,           \* history: events each consumer took off its queue
    rb_received,        \* history: events yielded to each consumer
    rb_log,             \* history: the events published, in publish order
    rb_shutdown_called,
    rb_at_shutdown,
    rb_raised,
    rb_warnings,        \* number of "Result queue full" warnings logged
    running,            \* the running flag of each module and of the source
    announcement_count, \* FusionPolicy.announcement_count
    cs_fields,          \* the fields of the ControlState object
    cs_lock,            \* ControlState._lock is held
    cs_pc,              \* position of each thread in update()/get_snapshot()
    cs_kwargs,          \* items of kwargs that update() has still to go through
    cs_overlap,         \* history: get_snapshot() was called amid an update
    cs_committed,       \* history: the fields when no update() was under way
    cs_snapshot,        \* history: the last dict returned by get_snapshot()
    vs_pc,              \* position of VideoSource in its seek handling
    vs_current_frame_id, \* VideoSource.current_frame_id
    iou_bbox1,          \* compute_iou: the argument bbox1
    iou_bbox2,          \* compute_iou: the argument bbox2
    iou_result,         \* compute_iou: the value returned
    tracker,            \* the Tracker object: next_track_id and tracks
    tr_assigned,        \* history: the track ids assigned, in creation order
    tr_evicted,         \* history: the list evict_old_tracks returned last
    m_detections,       \* match_detections_to_tracks: the boxes of `detections`
    m_tracks,           \* match_detections_to_tracks: the argument `tracks`
    m_iou_threshold,    \* match_detections_to_tracks: the argument iou_threshold
    m_result,           \* match_detections_to_tracks: the tuple returned
    tr_cycle,           \* history: the last detection cycle of TrackerModule
    fu_last_announced,  \* FusionPolicy.last_announced
    fu_track_stability, \* FusionModule.track_stability
    fu_announced,       \* history: per track_id, the timestamp of the last
                        \* FusionAnnouncement handed to the result bus
    fu_decision,        \* history: the last decision of _process_guidance
    fu_decisions,       \* history: the number of decisions taken
    fu_metrics,         \* history: the number of SystemMetric events published
    p_last_announced,   \* should_announce: self.last_announced
    p_args,             \* should_announce: the arguments
    p_result,           \* should_announce: the value returned
    nav_args,           \* compute_urgency / generate_guidance_text: arguments
    nav_result,         \* the urgency and the guidance text returned
    pl_origin,          \* history: per event of rb_log, the frame and the
                        \* detection it derives from
    pl_failed,          \* history: the tasks whose loop body raised, with
                        \* the counts of both buses at that moment
    pl_propagated,      \* history: the tasks an exception propagated out of
    lk_lock,            \* per bus, the task holding asyncio.Lock _lock, or free
    lk_pc,              \* per task, the call it is in and its position in it
    lk_running,         \* the task the event loop is running, or none
    lk_queue,           \* the asyncio.Queue of each consuming task
    lk_subscribers,     \* per bus, the subscribers list
    lk_count,            \* per bus, the number of publish calls entered
    ft_queue,           \* the ResultBus queue of each task of navigation and fusion
    ft_waiting,         \* the tasks suspended in queue.get()
    ft_ready,           \* the event loop's ready queue, oldest first
    ft_running,         \* the task the event loop runs, or none
    ft_track_stability,  \* FusionModule.track_stability
    ft_last_announced,  \* FusionPolicy.last_announced
    ft_count,           \* FusionPolicy.announcement_count
    ft_published,       \* history: the TrackUpdates the tracker published
    ft_eval             \* history: the last decision of _process_guidance

fbvars == <<fb_subscribers, fb_queue, fb_frame_count, fb_dropped_count, fb_pc,
            fb_received, fb_shutdown_called, fb_at_shutdown, fb_raised, fb_since,
            fb_hist>>
rbvars == <<rb_subscribers, rb_queue, rb_event_count, rb_pc, rb_taken,
            rb_received, rb_log, rb_shutdown_called, rb_at_shutdown, rb_raised,
            rb_warnings>>
stvars == <<running, announcement_count>>
csvars == <<cs_fields, cs_lock, cs_pc, cs_kwargs, cs_overlap, cs_committed,
            cs_snapshot>>
vsvars == <<vs_pc, vs_current_frame_id>>

\* The components that stand beside the buses, the stages and ControlState.
iouvars == <<iou_bbox1, iou_bbox2, iou_result>>
trvars == <<tracker, tr_assigned, tr_evicted>>
mvars == <<m_detections, m_tracks, m_iou_threshold, m_result>>
tcvars == <<tr_cycle>>
fuvars == <<fu_last_announced, fu_track_stability, fu_announced, fu_decision,
            fu_decisions, fu_metrics>>
pvars == <<p_last_announced, p_args, p_result>>
navvars == <<nav_args, nav_result>>
plvars == <<pl_origin, pl_failed, pl_propagated>>
lkvars == <<lk_lock, lk_pc, lk_running, lk_queue, lk_subscribers, lk_count>>
ftvars == <<ft_queue, ft_waiting, ft_ready, ft_running, ft_track_stability,
            ft_last_announced, ft_count, ft_published, ft_eval>>
cyvars == <<tcvars, fuvars, pvars, navvars, plvars, lkvars, ftvars>>
extvars == <<vsvars, iouvars, trvars, mvars, cyvars>>
vars == <<fbvars, rbvars, stvars, csvars, extvars>>

\* What an operation of one component leaves alone.
nonfb == <<rbvars, stvars, csvars, extvars>>
nonrb == <<fbvars, stvars, csvars, extvars>>
noncs == <<fbvars, rbvars, stvars, extvars>>

(***************************************************************************)
(* Helpers on sequences.                                                   *)
(***************************************************************************)
Range(seq) == {seq[i] : i \in 1..Len(seq)}

\* list.remove(x): removes the first occurrence of x.
RECURSIVE ListRemove(_, _)
ListRemove(seq, x) ==
    IF seq = <<>> THEN <<>>
    ELSE IF Head(seq) = x THEN Tail(seq)
    ELSE <<Head(seq)>> \o ListRemove(Tail(seq), x)

\* `if queue in self.subscribers: self.subscribers.remove(queue)`
Unregister(subscribers, s) ==
    IF s \in Range(subscribers) THEN ListRemove(subscribers, s) ELSE subscribers

(***************************************************************************)
(* asyncio.Queue as the buses use it.                                      *)
(***************************************************************************)
\* Queue.full(): a maxsize <= 0 means an unbounded queue.
QueueFull(q, maxsize) == maxsize > 0 /\ Len(q) >= maxsize

\* put_nowait(x) on queue q; ok = FALSE stands for asyncio.QueueFull.
PutNowait(q, x, maxsize) ==
    IF QueueFull(q, maxsize) THEN [q |-> q, ok |-> FALSE]
    ELSE [q |-> Append(q, x), ok |-> TRUE]

\* `await queue.get()` on a non-empty asyncio.Queue (first in, first out).
QueueGet_Lifo(q) ==
    [item |-> q[Len(q)], rest |-> SubSeq(q, 1, Len(q) - 1)]

QueueGet(q) == [item |-> Head(q), rest |-> Tail(q)]

(***************************************************************************)
(* FrameBus                                                                *)
(***************************************************************************)
\* subscribe(): asyncio.Queue(maxsize=self.queue_size)
FBQueueMaxsize_Unbounded == 0
FBQueueMaxsize == FBQueueSize

\* publish(): `if queue.qsize() >= self.queue_size: queue.get_nowait()`;
\* an empty queue raises QueueEmpty, which is passed over.
FBEvict_Keep(q) == q
FBEvict(q) ==
    IF Len(q) >= FBQueueSize /\ q # <<>> THEN Tail(q) ELSE q

\* `self._dropped_count += 1` after get_nowait()
FBEvicted_Uncounted(q) == 0

FBEvicted(q) ==
    IF Len(q) >= FBQueueSize /\ q # <<>> THEN 1 ELSE 0

\* publish(), the body of the loop for one queue: the queue afterwards and
\* the increase of _dropped_count (eviction, or QueueFull on put_nowait).
FBPublishOne(q, frame) ==
    LET made  == FBEvict(q)
        put   == PutNowait(made, frame, FBQueueMaxsize)
    IN  [q |-> put.q,
         dropped |-> FBEvicted(q) + (IF put.ok THEN 0 ELSE 1),
         raised |-> FALSE]      \* QueueEmpty and QueueFull are both caught

RECURSIVE SumDropped(_, _, _)
SumDropped(subscribers, queues, frame) ==
    IF subscribers = <<>> THEN 0
    ELSE FBPublishOne(queues[Head(subscribers)], frame).dropped
         + SumDropped(Tail(subscribers), queues, frame)

\* `self._frame_count += 1`, once in every call.
FBCounted_WhenSubscribed(subscribers) == IF subscribers = <<>> THEN 0 ELSE 1

FBCounted(subscribers) == 1

\* The history of a publish call: the call itself, the item get_nowait()
\* took off each queue and the queues put_nowait() put the frame on.
FBHistory(frame) ==
    [calls |-> fb_hist.calls + 1,
     evicted |-> [s \in FBSubs |->
                     IF s \in Range(fb_subscribers)
                        /\ Len(FBEvict(fb_queue[s])) < Len(fb_queue[s])
                     THEN Append(fb_hist.evicted[s], Head(fb_queue[s]))
                     ELSE fb_hist.evicted[s]],
     enqueued |-> [s \in FBSubs |->
                      IF s \in Range(fb_subscribers)
                         /\ PutNowait(FBEvict(fb_queue[s]), frame,
                                      FBQueueMaxsize).ok
                      THEN fb_hist.enqueued[s] + 1
                      ELSE fb_hist.enqueued[s]]]

FBPublish ==
    /\ fb_frame_count < MaxFrames /\ fb_hist.calls < MaxFrames
    /\ LET frame == Frame(fb_frame_count + 1) IN
       /\ fb_frame_count' = fb_frame_count + FBCounted(fb_subscribers)
       /\ fb_hist' = FBHistory(frame)
       /\ fb_queue' = [s \in FBSubs |->
                          IF s \in Range(fb_subscribers)
                          THEN FBPublishOne(fb_queue[s], frame).q
                          ELSE fb_queue[s]]
       /\ fb_dropped_count' =
              fb_dropped_count + SumDropped(fb_subscribers, fb_queue, frame)
       /\ fb_raised' = (fb_raised \/ \E s \in Range(fb_subscribers) :
                                       FBPublishOne(fb_queue[s], frame).raised)
    /\ UNCHANGED <<fb_subscribers, fb_pc, fb_received, fb_shutdown_called,
                   fb_at_shutdown, fb_since>>
    /\ UNCHANGED nonfb

\* subscribe(), up to the first `await queue.get()`.
FBSubscribe(s) ==
    /\ fb_pc[s] = "idle"
    /\ fb_queue' = [fb_queue EXCEPT ![s] = <<>>]
    /\ fb_subscribers' = Append(fb_subscribers, s)
    /\ fb_pc' = [fb_pc EXCEPT ![s] = "subscribed"]
    /\ fb_since' = [fb_since EXCEPT ![s] = fb_frame_count]
    /\ UNCHANGED fb_hist
    /\ UNCHANGED <<fb_frame_count, fb_dropped_count, fb_received,
                   fb_shutdown_called, fb_at_shutdown, fb_raised>>
    /\ UNCHANGED nonfb

\* subscribe(): `frame = await queue.get()`; None ends the loop and the
\* finally clause deregisters the queue, any other item is yielded.
FBGet(s) ==
    /\ fb_pc[s] = "subscribed"
    /\ fb_queue[s] # <<>>
    /\ LET item == QueueGet(fb_queue[s]).item IN
       /\ fb_queue' = [fb_queue EXCEPT ![s] = QueueGet(fb_queue[s]).rest]
       /\ IF item = None
          THEN /\ fb_pc' = [fb_pc EXCEPT ![s] = "ended"]
               /\ fb_subscribers' = Unregister(fb_subscribers, s)
               /\ UNCHANGED fb_received
          ELSE /\ fb_received' =
                      [fb_received EXCEPT ![s] = Append(fb_received[s], item)]
               /\ UNCHANGED <<fb_pc, fb_subscribers>>
    /\ UNCHANGED <<fb_frame_count, fb_dropped_count, fb_shutdown_called,
                   fb_at_shutdown, fb_raised, fb_since,
                   fb_hist>>
    /\ UNCHANGED nonfb

\* The consumer leaves its `async for` (break): the generator stays
\* suspended at `yield frame`, its queue still registered.
FBBreak(s) ==
    /\ fb_pc[s] = "subscribed"
    /\ fb_received[s] # <<>>
    /\ fb_pc' = [fb_pc EXCEPT ![s] = "abandoned"]
    /\ UNCHANGED <<fb_subscribers, fb_queue, fb_frame_count, fb_dropped_count,
                   fb_received, fb_shutdown_called, fb_at_shutdown, fb_raised, fb_since,
                   fb_hist>>
    /\ UNCHANGED nonfb

\* The abandoned generator is closed (aclose): GeneratorExit at the yield
\* runs the finally clause.
FBFinalize(s) ==
    /\ fb_pc[s] = "abandoned"
    /\ fb_pc' = [fb_pc EXCEPT ![s] = "closed"]
    /\ fb_subscribers' = Unregister(fb_subscribers, s)
    /\ UNCHANGED <<fb_queue, fb_frame_count, fb_dropped_count, fb_received,
                   fb_shutdown_called, fb_at_shutdown, fb_raised, fb_since,
                   fb_hist>>
    /\ UNCHANGED nonfb

\* shutdown(): put_nowait(None) on every queue, QueueFull passed over.
FBShutdownOne(q) == PutNowait(q, None, FBQueueMaxsize).q

FBAfterShutdown ==
    [s \in FBSubs |-> IF s \in Range(fb_subscribers)
                      THEN FBShutdownOne(fb_queue[s])
                      ELSE fb_queue[s]]

FBShutdown ==
    /\ ~fb_shutdown_called
    /\ fb_shutdown_called' = TRUE
    /\ fb_queue' = FBAfterShutdown
    /\ fb_at_shutdown' = fb_at_shutdown \cup Range(fb_subscribers)
    /\ UNCHANGED <<fb_subscribers, fb_frame_count, fb_dropped_count, fb_pc,
                   fb_received, fb_raised, fb_since,
                   fb_hist>>
    /\ UNCHANGED nonfb

FBNext ==
    \/ FBPublish
    \/ \E s \in FBClients : FBSubscribe(s)
    \/ \E s \in FBClients : FBGet(s)
    \/ \E s \in FBClients : FBBreak(s)
    \/ \E s \in FBClients : FBFinalize(s)
    \/ FBShutdown

(***************************************************************************)
(* ResultBus                                                               *)
(***************************************************************************)
\* subscribe_all(): asyncio.Queue(maxsize=self.queue_size)
RBQueueMaxsize == RBQueueSize

\* publish(), the body of the loop for one queue: put_nowait(event); on
\* QueueFull a warning is logged and the event is dropped for that queue.
RBPublishOne_DropOldest(q, event) ==
    LET made == IF QueueFull(q, RBQueueMaxsize) THEN Tail(q) ELSE q
    IN  [q |-> Append(made, event), warned |-> FALSE, raised |-> FALSE]

RBPublishOne_Raises(q, event) ==
    LET put == PutNowait(q, event, RBQueueMaxsize)
    IN  [q |-> put.q, warned |-> FALSE, raised |-> ~put.ok]

RBPublishOne(q, event) ==
    LET put == PutNowait(q, event, RBQueueMaxsize)
    IN  [q |-> put.q,
         warned |-> ~put.ok,
         raised |-> FALSE]      \* QueueFull is caught inside the loop

\* subscribe_type(): `if isinstance(event, event_type): yield event`;
\* subscribe_all() yields every event.
RBYields_All(filter, event) == TRUE

RBYields(filter, event) == filter = "all" \/ event.type = filter

\* `for queue in self.subscribers`: the queues publish puts the event on,
\* whatever the type their consumer asked subscribe_type for.
RBReceivers_OfType(event) ==
    {s \in Range(rb_subscribers) : RBYields(RBFilter[s], event)}

RBReceivers(event) == Range(rb_subscribers)

\* publish(event) as a function of the bus: b holds the queues, the event
\* counter, and the histories of published events, warnings and errors.
RBAfterPublish(b, t) ==
    LET event == Event(t, b.count + 1) IN
    [queue |-> [s \in RBSubs |->
                   IF s \in RBReceivers(event)
                   THEN RBPublishOne(b.queue[s], event).q
                   ELSE b.queue[s]],
     count |-> b.count + 1,
     log |-> Append(b.log, event),
     warnings |-> b.warnings + Cardinality(
                     {s \in RBReceivers(event) :
                          RBPublishOne(b.queue[s], event).warned}),
     raised |-> (b.raised \/ \E s \in RBReceivers(event) :
                                RBPublishOne(b.queue[s], event).raised)]

\* Several publish calls in a row, as made by one loop iteration of a stage.
RECURSIVE RBAfterPublishAll(_, _)
RBAfterPublishAll(b, types) ==
    IF types = <<>> THEN b
    ELSE RBAfterPublishAll(RBAfterPublish(b, Head(types)), Tail(types))

RBBus(queue) ==
    [queue |-> queue, count |-> rb_event_count, log |-> rb_log,
     warnings |-> rb_warnings, raised |-> rb_raised]

RBBecomes(b) ==
    /\ rb_queue' = b.queue
    /\ rb_event_count' = b.count
    /\ rb_log' = b.log
    /\ rb_warnings' = b.warnings
    /\ rb_raised' = b.raised

RBPublish(t) ==
    /\ rb_event_count < MaxEvents
    /\ RBBecomes(RBAfterPublish(RBBus(rb_queue), t))
    /\ UNCHANGED <<rb_subscribers, rb_pc, rb_taken, rb_received,
                   rb_shutdown_called, rb_at_shutdown>>
    /\ UNCHANGED nonrb

\* subscribe_all(), up to the first `await queue.get()`.  subscribe_type(T)
\* registers through the same code: it iterates over subscribe_all().
RBRegister(s) ==
    /\ rb_pc[s] = "idle"
    /\ rb_queue' = [rb_queue EXCEPT ![s] = <<>>]
    /\ rb_subscribers' = Append(rb_subscribers, s)
    /\ rb_pc' = [rb_pc EXCEPT ![s] = "subscribed"]
    /\ UNCHANGED <<rb_event_count, rb_taken, rb_received, rb_log,
                   rb_shutdown_called, rb_at_shutdown, rb_raised, rb_warnings>>
    /\ UNCHANGED nonrb

RBSubscribeAll(s) == RBFilter[s] = "all" /\ RBRegister(s)

RBSubscribeType(s, event_type) == RBFilter[s] = event_type /\ RBRegister(s)

\* subscribe_all(): `event = await queue.get()`; None ends the loop and the
\* finally clause deregisters the queue; any other event is yielded, and
\* passes the type filter of subscribe_type before it reaches the consumer.
RBGet(s) ==
    /\ rb_pc[s] = "subscribed"
    /\ rb_queue[s] # <<>>
    /\ LET event == QueueGet(rb_queue[s]).item IN
       /\ rb_queue' = [rb_queue EXCEPT ![s] = QueueGet(rb_queue[s]).rest]
       /\ IF event = None
          THEN /\ rb_pc' = [rb_pc EXCEPT ![s] = "ended"]
               /\ rb_subscribers' = Unregister(rb_subscribers, s)
               /\ UNCHANGED <<rb_taken, rb_received>>
          ELSE /\ rb_taken' = [rb_taken EXCEPT ![s] = Append(rb_taken[s], event)]
               /\ rb_received' =
                      [rb_received EXCEPT ![s] =
                          IF RBYields(RBFilter[s], event)
                          THEN Append(rb_received[s], event)
                          ELSE rb_received[s]]
               /\ UNCHANGED <<rb_pc, rb_subscribers>>
    /\ UNCHANGED <<rb_event_count, rb_log, rb_shutdown_called,
                   rb_at_shutdown, rb_raised, rb_warnings>>
    /\ UNCHANGED nonrb

\* The consumer leaves its `async for` (break) after an event it was given.
RBBreak(s) ==
    /\ rb_pc[s] = "subscribed"
    /\ rb_received[s] # <<>>
    /\ rb_pc' = [rb_pc EXCEPT ![s] = "abandoned"]
    /\ UNCHANGED <<rb_subscribers, rb_queue, rb_event_count, rb_taken,
                   rb_received, rb_log, rb_shutdown_called, rb_at_shutdown,
                   rb_raised, rb_warnings>>
    /\ UNCHANGED nonrb

\* The abandoned generator is closed: the finally clause of subscribe_all().
RBFinalize(s) ==
    /\ rb_pc[s] = "abandoned"
    /\ rb_pc' = [rb_pc EXCEPT ![s] = "closed"]
    /\ rb_subscribers' = Unregister(rb_subscribers, s)
    /\ UNCHANGED <<rb_queue, rb_event_count, rb_taken, rb_received, rb_log,
                   rb_shutdown_called, rb_at_shutdown, rb_raised, rb_warnings>>
    /\ UNCHANGED nonrb

\* shutdown(): put_nowait(None) on every queue, QueueFull passed over.
RBShutdownOne(q) == PutNowait(q, None, RBQueueMaxsize).q

RBAfterShutdown ==
    [s \in RBSubs |-> IF s \in Range(rb_subscribers)
                      THEN RBShutdownOne(rb_queue[s])
                      ELSE rb_queue[s]]

RBShutdown ==
    /\ ~rb_shutdown_called
    /\ rb_shutdown_called' = TRUE
    /\ rb_queue' = RBAfterShutdown
    /\ rb_at_shutdown' = rb_at_shutdown \cup Range(rb_subscribers)
    /\ UNCHANGED <<rb_subscribers, rb_event_count, rb_pc, rb_taken,
                   rb_received, rb_log, rb_raised, rb_warnings>>
    /\ UNCHANGED nonrb

RBNext ==
    \/ \E t \in EventTypes : RBPublish(t)
    \/ RBSubscribeAll("listener")
    \/ RBSubscribeType("typed", "DetectionResult")
    \/ \E s \in RBClients : RBGet(s)
    \/ \E s \in RBClients : RBBreak(s)
    \/ \E s \in RBClients : RBFinalize(s)
    \/ RBShutdown

(***************************************************************************)
(* The pipeline stages: start(), the consumption loops and stop() of the   *)
(* modules, and the orchestrator ReplaySystem.  What a loop publishes is   *)
(* followed by event type; the payloads, and the decisions taken on them   *)
(* (how many tracks a detection cycle reports, whether fusion announces),  *)
(* are choices left open here.                                             *)
(***************************************************************************)
\* fusion/module.py: `announcement_count % 100 == 0`
MetricEvery == 100

TaskPc(t) == IF t \in FBTasks THEN fb_pc[t] ELSE rb_pc[t]
TaskQueue(t) == IF t \in FBTasks THEN fb_queue[t] ELSE rb_queue[t]

\* A task has finished when its coroutine has returned: at end-of-stream,
\* after a break (its generator then awaits finalisation), or cancelled.
TaskDone(t) == TaskPc(t) \in {"ended", "abandoned", "closed", "cancelled"}

\* start() of a module: `self.running = True` and asyncio.create_task for
\* each of its loops; no task has run yet when start() returns.
ModuleStart(m) ==
    /\ ~running[m]
    /\ \A t \in Tasks : ModuleOf[t] = m => TaskPc(t) = "unstarted"
    /\ running' = [running EXCEPT ![m] = TRUE]
    /\ fb_pc' = [s \in FBSubs |->
                    IF s \in FBTasks /\ ModuleOf[s] = m THEN "idle"
                    ELSE fb_pc[s]]
    /\ rb_pc' = [s \in RBSubs |->
                    IF s \in RBTasks /\ ModuleOf[s] = m THEN "idle"
                    ELSE rb_pc[s]]
    /\ UNCHANGED <<fb_subscribers, fb_queue, fb_frame_count, fb_dropped_count,
                   fb_received, fb_shutdown_called, fb_at_shutdown, fb_raised, fb_since,
                   fb_hist>>
    /\ UNCHANGED <<rb_subscribers, rb_queue, rb_event_count, rb_taken,
                   rb_received, rb_log, rb_shutdown_called, rb_at_shutdown,
                   rb_raised, rb_warnings>>
    /\ UNCHANGED <<announcement_count, csvars, extvars>>

\* The first run of the tasks of module m: each enters its `async for`,
\* which registers a queue.  The event loop runs ready tasks in the order
\* they were created, so tasks created back to back by one start() have
\* their first runs back to back.
TasksFirstRun(m) ==
    LET started(s) == s \in Tasks /\ ModuleOf[s] = m IN
    /\ \A t \in Tasks : ModuleOf[t] = m => TaskPc(t) = "idle"
    /\ fb_subscribers' =
           fb_subscribers \o SelectSeq(TasksOf[m], LAMBDA t : t \in FBTasks)
    /\ rb_subscribers' =
           rb_subscribers \o SelectSeq(TasksOf[m], LAMBDA t : t \in RBTasks)
    /\ fb_pc' = [s \in FBSubs |-> IF started(s) THEN "subscribed" ELSE fb_pc[s]]
    /\ rb_pc' = [s \in RBSubs |-> IF started(s) THEN "subscribed" ELSE rb_pc[s]]
    /\ fb_queue' = [s \in FBSubs |-> IF started(s) THEN <<>> ELSE fb_queue[s]]
    /\ rb_queue' = [s \in RBSubs |-> IF started(s) THEN <<>> ELSE rb_queue[s]]
    /\ fb_since' = [s \in FBSubs |->
                       IF started(s) /\ s \in FBTasks THEN fb_frame_count
                       ELSE fb_since[s]]
    /\ UNCHANGED fb_hist
    /\ UNCHANGED <<fb_frame_count, fb_dropped_count, fb_received,
                   fb_shutdown_called, fb_at_shutdown, fb_raised>>
    /\ UNCHANGED <<rb_event_count, rb_taken, rb_received, rb_log,
                   rb_shutdown_called, rb_at_shutdown, rb_raised, rb_warnings>>
    /\ UNCHANGED <<stvars, csvars, extvars>>

\* `if not self.running: break` at the head of every loop body.
StageBreaks_Never(m) == FALSE

StageBreaks(m) == ~running[m]

\* ObjectDetectionModule._process_frames, one iteration: the next frame is
\* detected on and a DetectionResult published (also with no detection).
\* `raises` tells whether the loop body raises on the frame, before it
\* publishes; max_events bounds the events followed.
ProcessFramesTurn(max_events, raises) ==
    LET t == "process_frames"
        got == QueueGet(fb_queue[t])
    IN
    /\ fb_pc[t] = "subscribed"
    /\ fb_queue[t] # <<>>
    /\ fb_queue' = [fb_queue EXCEPT ![t] = got.rest]
    /\ IF got.item = None
       THEN /\ fb_pc' = [fb_pc EXCEPT ![t] = "ended"]
            /\ fb_subscribers' = Unregister(fb_subscribers, t)
            /\ UNCHANGED <<rb_queue, rb_event_count, rb_log,
                           rb_warnings, rb_raised>>
       ELSE /\ UNCHANGED fb_subscribers
            /\ IF StageBreaks(ModuleOf[t])
               THEN /\ fb_pc' = [fb_pc EXCEPT ![t] = "abandoned"]
                    /\ UNCHANGED <<rb_queue, rb_event_count, rb_log,
                                   rb_warnings, rb_raised>>
               ELSE IF raises
               THEN /\ fb_pc' = [fb_pc EXCEPT ![t] = "abandoned"]
                    /\ UNCHANGED <<rb_queue, rb_event_count, rb_log,
                                   rb_warnings, rb_raised>>
               ELSE /\ rb_event_count < max_events
                    /\ RBBecomes(RBAfterPublish(RBBus(rb_queue),
                                                "DetectionResult"))
                    /\ UNCHANGED fb_pc
    /\ UNCHANGED <<fb_frame_count, fb_dropped_count, fb_received,
                   fb_shutdown_called, fb_at_shutdown, fb_raised, fb_since,
                   fb_hist>>
    /\ UNCHANGED <<rb_subscribers, rb_pc, rb_taken, rb_received,
                   rb_shutdown_called, rb_at_shutdown>>
    /\ UNCHANGED <<stvars, csvars>>

ProcessFrames == ProcessFramesTurn(MaxEvents, FALSE) /\ UNCHANGED extvars

\* One iteration of a loop over result_bus.subscribe_type(T) in task t:
\* None ends the loop, an event of another type is passed over inside
\* subscribe_type, an event of type T reaches the loop body, which breaks
\* if the module is stopped and otherwise publishes `outputs` and counts
\* `announced` announcements.  With `raises` the loop body raises after it
\* published `outputs`: the loop is left, the generator stays suspended.
RBLoopTurn(t, outputs, announced, max_events, raises) ==
    LET got == QueueGet(rb_queue[t])
        rest == [rb_queue EXCEPT ![t] = got.rest]
    IN
    /\ rb_pc[t] = "subscribed"
    /\ rb_queue[t] # <<>>
    /\ IF got.item = None
       THEN /\ rb_pc' = [rb_pc EXCEPT ![t] = "ended"]
            /\ rb_subscribers' = Unregister(rb_subscribers, t)
            /\ rb_queue' = rest
            /\ UNCHANGED <<rb_event_count, rb_log,
                           rb_warnings, rb_raised, announcement_count>>
       ELSE /\ UNCHANGED rb_subscribers
            /\ IF ~RBYields(RBFilter[t], got.item)
               THEN /\ rb_queue' = rest
                    /\ UNCHANGED <<rb_pc, rb_event_count, rb_log,
                                   rb_warnings, rb_raised, announcement_count>>
               ELSE /\ IF StageBreaks(ModuleOf[t])
                       THEN /\ rb_pc' = [rb_pc EXCEPT ![t] = "abandoned"]
                            /\ rb_queue' = rest
                            /\ UNCHANGED <<rb_event_count, rb_log, rb_warnings,
                                           rb_raised, announcement_count>>
                       ELSE /\ rb_event_count + Len(outputs) <= max_events
                            /\ RBBecomes(RBAfterPublishAll(RBBus(rest), outputs))
                            /\ announcement_count' =
                                   announcement_count + announced
                            /\ rb_pc' = [rb_pc EXCEPT ![t] =
                                             IF raises THEN "abandoned" ELSE @]
    /\ UNCHANGED <<rb_taken, rb_received, rb_shutdown_called, rb_at_shutdown,
                   running>>
    /\ UNCHANGED <<fbvars, csvars>>

RBLoopIteration(t, outputs, announced) ==
    RBLoopTurn(t, outputs, announced, MaxEvents, FALSE) /\ UNCHANGED extvars

\* TrackerModule._process_detections: one TrackUpdate per matched track and
\* per new track.
ProcessDetections ==
    \E n \in 0..MaxTracksPerCycle :
        RBLoopIteration("process_detections",
                        [i \in 1..n |-> "TrackUpdate"], 0)

\* NavigationModule._process_tracks: one NavigationGuidance per TrackUpdate.
ProcessTracks ==
    RBLoopIteration("process_tracks", <<"NavigationGuidance">>, 0)

\* FusionModule._process_guidance: a FusionAnnouncement if the policy says
\* so, then a SystemMetric whenever the count is a positive multiple of 100.
ProcessGuidance ==
    \E should_announce \in BOOLEAN :
        LET announced == IF should_announce THEN 1 ELSE 0
            count == announcement_count + announced
        IN  RBLoopIteration(
                "process_guidance",
                (IF should_announce THEN <<"FusionAnnouncement">> ELSE <<>>)
                \o (IF count % MetricEvery = 0 /\ count > 0
                    THEN <<"SystemMetric">> ELSE <<>>),
                announced)

\* FusionModule._monitor_track_stability: records event.stable, publishes
\* nothing.
MonitorTrackStability ==
    RBLoopIteration("monitor_track_stability", <<>>, 0)

\* The generator a finished task broke out of is closed.
TaskFinalize(t) ==
    IF t \in FBTasks THEN FBFinalize(t) ELSE RBFinalize(t)

\* stop() of a module: `self.running = False`.
ModuleStop(m) ==
    /\ running[m]
    /\ running' = [running EXCEPT ![m] = FALSE]
    /\ UNCHANGED <<fbvars, rbvars, announcement_count, csvars, extvars>>

\* ReplaySystem.stop(): stop() of every module, shutdown() of both buses,
\* then cancel() of every task that is not done and gather(): a cancelled
\* task is resumed with CancelledError, which leaves the generators through
\* their finally clauses.
ReplayStop ==
    /\ \E m \in Modules : running[m]
    /\ ~fb_shutdown_called /\ ~rb_shutdown_called
    /\ running' = [m \in Modules |-> FALSE]
    /\ fb_queue' = FBAfterShutdown
    /\ fb_shutdown_called' = TRUE
    /\ fb_at_shutdown' = fb_at_shutdown \cup Range(fb_subscribers)
    /\ rb_queue' = RBAfterShutdown
    /\ rb_shutdown_called' = TRUE
    /\ rb_at_shutdown' = rb_at_shutdown \cup Range(rb_subscribers)
    /\ fb_pc' = [s \in FBSubs |->
                    IF s \in FBTasks /\ fb_pc[s] \in {"idle", "subscribed"}
                    THEN "cancelled" ELSE fb_pc[s]]
    /\ rb_pc' = [s \in RBSubs |->
                    IF s \in RBTasks /\ rb_pc[s] \in {"idle", "subscribed"}
                    THEN "cancelled" ELSE rb_pc[s]]
    /\ fb_subscribers' =
           SelectSeq(fb_subscribers,
                     LAMBDA s : ~(s \in FBTasks /\ fb_pc[s] = "subscribed"))
    /\ rb_subscribers' =
           SelectSeq(rb_subscribers,
                     LAMBDA s : ~(s \in RBTasks /\ rb_pc[s] = "subscribed"))
    /\ UNCHANGED <<fb_frame_count, fb_dropped_count, fb_received, fb_raised, fb_since,
                   fb_hist>>
    /\ UNCHANGED <<rb_event_count, rb_taken, rb_received, rb_log, rb_raised,
                   rb_warnings>>
    /\ UNCHANGED <<announcement_count, csvars, extvars>>

\* Events the rest of the pipeline publishes while one module is observed.
StageEventTypes == {"DetectionResult", "TrackUpdate", "NavigationGuidance"}

\* The steps of module m and of its tasks.
StageNext(m) ==
    \/ ModuleStart(m)
    \/ TasksFirstRun(m)
    \/ m = "ObjectDetection" /\ ProcessFrames
    \/ m = "Tracker" /\ ProcessDetections
    \/ m = "Navigation" /\ ProcessTracks
    \/ m = "Fusion" /\ ProcessGuidance
    \/ m = "Fusion" /\ MonitorTrackStability
    \/ \E t \in Tasks : ModuleOf[t] = m /\ TaskFinalize(t)
    \/ ModuleStop(m)

\* Module m is the one that was started.
Started(m) ==
    /\ \A t \in Tasks : ModuleOf[t] = m => TaskPc(t) # "unstarted"
    /\ \A t \in Tasks : ModuleOf[t] # m => TaskPc(t) = "unstarted"

\* The stages share no state but the buses.  NextStages follows one module
\* on the buses, as the module tests start it, while the frames or the
\* events that the other stages produce are published around it.
NextStages ==
    \/ \E m \in Modules :
           /\ \A t \in Tasks : ModuleOf[t] # m => TaskPc(t) = "unstarted"
           /\ StageNext(m)
    \/ Started("ObjectDetection") /\ FBPublish
    \/ \E m \in Modules \ {"ObjectDetection"} :
           Started(m) /\ \E t \in StageEventTypes : RBPublish(t)
    \/ (\E m \in Modules : Started(m)) /\ FBShutdown
    \/ (\E m \in Modules : Started(m)) /\ RBShutdown
    \/ ReplayStop

(***************************************************************************)
(* ControlState: a dataclass whose update() and get_snapshot() run under   *)
(* a threading.Lock.  The callers are threads; a thread is preempted       *)
(* between any two statements, so update() writes its fields one step at   *)
(* a time.  Floats are kept in tenths, bool as 0/1.                        *)
(***************************************************************************)
CSThreads == {"ui", "client"}

\* Python's None as the value of pending_seek.
NoSeek == -1

\* The dataclass defaults.
CSDefaults == [paused |-> 0,
               speed |-> 10,
               pending_seek |-> NoSeek,
               detection_conf_threshold |-> 5,
               tracker_iou_threshold |-> 3,
               fusion_cooldown_seconds |-> 30]

CSFieldNames == DOMAIN CSDefaults

\* The keys and values the callers pass (ui/server.py: pause, play, speed
\* and seek); "no_such_field" is a key that is no attribute of the object.
CSValues == [paused |-> {0, 1},
             speed |-> {10, 20},
             pending_seek |-> {NoSeek, 1},
             no_such_field |-> {1}]

CSKwargItems == UNION {{<<k, v>> : v \in CSValues[k]} : k \in DOMAIN CSValues}

\* **kwargs: a dict, so no key twice; kwargs.items() goes in call order.
CSKwargs ==
    {kw \in UNION {[1..n -> CSKwargItems] : n \in 0..MaxKwargs} :
        \A i, j \in DOMAIN kw : i # j => kw[i][1] # kw[j][1]}

\* `with self._lock:` enters only when the lock is not held.
CSLockFree_Always(lock) == TRUE

CSLockFree(lock) == ~lock

\* `if hasattr(self, key): setattr(self, key, value)`
CSSetattr(fields, key, value) ==
    IF key \in CSFieldNames THEN [fields EXCEPT ![key] = value] ELSE fields

\* The dict built by get_snapshot(): five fields, pending_seek is not one.
CSSnapshotKeys == {"paused", "speed", "detection_conf_threshold",
                   "tracker_iou_threshold", "fusion_cooldown_seconds"}

CSSnapshotOf(fields) == [k \in CSSnapshotKeys |-> fields[k]]

NoSnapshot == [k \in CSSnapshotKeys |-> -1]

\* An update() has written some of its fields and has more to go through.
CSMidUpdate ==
    \E u \in CSThreads :
        /\ cs_pc[u] = "updating"
        /\ cs_kwargs[u] # <<>>
        /\ CSSnapshotOf(cs_fields) # CSSnapshotOf(cs_committed)

\* update(**kwargs) enters `with self._lock`.
CSUpdateEnter(t, kwargs) ==
    /\ cs_pc[t] = "idle"
    /\ CSLockFree(cs_lock)
    /\ cs_lock' = TRUE
    /\ cs_pc' = [cs_pc EXCEPT ![t] = "updating"]
    /\ cs_kwargs' = [cs_kwargs EXCEPT ![t] = kwargs]
    /\ UNCHANGED <<cs_fields, cs_overlap, cs_committed, cs_snapshot>>
    /\ UNCHANGED noncs

\* update(): one turn of `for key, value in kwargs.items()`.
CSUpdateField(t) ==
    /\ cs_pc[t] = "updating"
    /\ cs_kwargs[t] # <<>>
    /\ cs_fields' = CSSetattr(cs_fields, Head(cs_kwargs[t])[1],
                              Head(cs_kwargs[t])[2])
    /\ cs_kwargs' = [cs_kwargs EXCEPT ![t] = Tail(cs_kwargs[t])]
    /\ UNCHANGED <<cs_lock, cs_pc, cs_overlap, cs_committed, cs_snapshot>>
    /\ UNCHANGED noncs

\* update(): the loop is over, the `with` block releases the lock.
CSUpdateExit(t) ==
    /\ cs_pc[t] = "updating"
    /\ cs_kwargs[t] = <<>>
    /\ cs_lock' = FALSE
    /\ cs_pc' = [cs_pc EXCEPT ![t] = "idle"]
    /\ cs_committed' = cs_fields
    /\ UNCHANGED <<cs_fields, cs_kwargs, cs_overlap, cs_snapshot>>
    /\ UNCHANGED noncs

\* get_snapshot() is called and reaches `with self._lock`.
CSSnapshotCall(t) ==
    /\ cs_pc[t] = "idle"
    /\ cs_pc' = [cs_pc EXCEPT ![t] = "snapshot_call"]
    /\ cs_overlap' = [cs_overlap EXCEPT ![t] = CSMidUpdate]
    /\ UNCHANGED <<cs_fields, cs_lock, cs_kwargs, cs_committed, cs_snapshot>>
    /\ UNCHANGED noncs

\* get_snapshot() enters `with self._lock`.
CSSnapshotEnter(t) ==
    /\ cs_pc[t] = "snapshot_call"
    /\ CSLockFree(cs_lock)
    /\ cs_lock' = TRUE
    /\ cs_pc' = [cs_pc EXCEPT ![t] = "snapshot"]
    /\ UNCHANGED <<cs_fields, cs_kwargs, cs_overlap, cs_committed, cs_snapshot>>
    /\ UNCHANGED noncs

\* get_snapshot(): the dict is built and returned, the lock released.
CSSnapshotReturn(t) ==
    /\ cs_pc[t] = "snapshot"
    /\ cs_snapshot' = [view |-> CSSnapshotOf(cs_fields),
                       overlap |-> cs_overlap[t]]
    /\ cs_lock' = FALSE
    /\ cs_pc' = [cs_pc EXCEPT ![t] = "idle"]
    /\ UNCHANGED <<cs_fields, cs_kwargs, cs_overlap, cs_committed>>
    /\ UNCHANGED noncs

\* VideoSource._run_frames / _run_mp4, seek handling: `if pending_seek is
\* not None: self.current_frame_id = self.control_state.pending_seek`.
VSSeekRead ==
    /\ vs_pc = "loop"
    /\ cs_fields.pending_seek # NoSeek
    /\ vs_current_frame_id' = cs_fields.pending_seek
    /\ vs_pc' = "seek"
    /\ UNCHANGED <<csvars, fbvars, rbvars, stvars, iouvars, trvars, mvars,
                 cyvars>>

\* `self.control_state.pending_seek = None`: an assignment to the field,
\* outside update() and without the lock.
VSSeekClear ==
    /\ vs_pc = "seek"
    /\ cs_fields' = [cs_fields EXCEPT !.pending_seek = NoSeek]
    /\ vs_pc' = "loop"
    /\ UNCHANGED <<cs_lock, cs_pc, cs_kwargs, cs_overlap, cs_committed,
                   cs_snapshot>>
    /\ UNCHANGED <<vs_current_frame_id, fbvars, rbvars, stvars, iouvars,
                   trvars, mvars, cyvars>>

NextCS ==
    \/ \E t \in CSThreads : \E kwargs \in CSKwargs : CSUpdateEnter(t, kwargs)
    \/ \E t \in CSThreads : CSUpdateField(t)
    \/ \E t \in CSThreads : CSUpdateExit(t)
    \/ \E t \in CSThreads : CSSnapshotCall(t)
    \/ \E t \in CSThreads : CSSnapshotEnter(t)
    \/ \E t \in CSThreads : CSSnapshotReturn(t)
    \/ VSSeekRead
    \/ VSSeekClear

(***************************************************************************)
(* Floating point.  The boxes, the IoU and the thresholds are Python       *)
(* floats: binary floating point, every operation rounded to the nearest   *)
(* representable value, ties to the even mantissa.  A float is kept here   *)
(* as an integer count of units of 2^-FloatScale; it is representable if   *)
(* it has at most MantissaBits significant bits.                           *)
(***************************************************************************)
RECURSIVE Pow2(_)
Pow2(n) == IF n = 0 THEN 1 ELSE 2 * Pow2(n - 1)

FloatScale == 3 * MantissaBits

\* 1.0
FloatOne == Pow2(FloatScale)

\* The shift that leaves q with at most MantissaBits bits (0 for q = 0).
RECURSIVE FloatShift(_)
FloatShift(q) ==
    IF q < Pow2(MantissaBits) THEN 0 ELSE 1 + FloatShift(q \div 2)

\* n / d rounded to the nearest integer, ties to even.
RoundHalfEven(n, d) ==
    LET k == n \div d
        r == n % d
    IN  IF 2 * r < d THEN k
        ELSE IF 2 * r > d THEN k + 1
        ELSE IF k % 2 = 0 THEN k ELSE k + 1

\* The float nearest to n / d units (n >= 0, d > 0).
FloatRound(n, d) ==
    LET spacing == Pow2(FloatShift(n \div d))
    IN  spacing * RoundHalfEven(n, d * spacing)

\* a + b, a - b, a * b, a / b on floats.
FloatAdd(a, b) ==
    IF a + b >= 0 THEN FloatRound(a + b, 1) ELSE 0 - FloatRound(0 - (a + b), 1)

FloatSub(a, b) == FloatAdd(a, 0 - b)

FloatMul(a, b) ==
    IF a * b >= 0 THEN FloatRound(a * b, FloatOne)
    ELSE 0 - FloatRound(0 - (a * b), FloatOne)

FloatDiv(a, b) == FloatRound(a * FloatOne, b)

Max(a, b) == IF a >= b THEN a ELSE b
Min(a, b) == IF a <= b THEN a ELSE b

\* What a division by zero does: ZeroDivisionError is raised to the caller.
ZeroDivisionError == -2

\* The two early returns and the division: `if inter_x2 <= inter_x1 or
\* inter_y2 <= inter_y1: return 0.0`, `if union_area == 0: return 0.0`,
\* `return inter_area / union_area`.
IoUOf_Unguarded(no_overlap, inter_area, union_area) ==
    IF union_area = 0 THEN ZeroDivisionError
    ELSE IF no_overlap THEN 0
    ELSE FloatDiv(inter_area, union_area)

IoUOf(no_overlap, inter_area, union_area) ==
    IF no_overlap THEN 0
    ELSE IF union_area = 0 THEN 0
    ELSE FloatDiv(inter_area, union_area)

(***************************************************************************)
(* modules/tracker/matching.py: compute_iou on boxes <<x, y, w, h>>.       *)
(***************************************************************************)
compute_iou(bbox1, bbox2) ==
    LET x1 == bbox1[1]
        y1 == bbox1[2]
        w1 == bbox1[3]
        h1 == bbox1[4]
        x2 == bbox2[1]
        y2 == bbox2[2]
        w2 == bbox2[3]
        h2 == bbox2[4]
        box1_x2 == FloatAdd(x1, w1)
        box1_y2 == FloatAdd(y1, h1)
        box2_x2 == FloatAdd(x2, w2)
        box2_y2 == FloatAdd(y2, h2)
        inter_x1 == Max(x1, x2)
        inter_y1 == Max(y1, y2)
        inter_x2 == Min(box1_x2, box2_x2)
        inter_y2 == Min(box1_y2, box2_y2)
        inter_area == FloatMul(FloatSub(inter_x2, inter_x1),
                               FloatSub(inter_y2, inter_y1))
        box1_area == FloatMul(w1, h1)
        box2_area == FloatMul(w2, h2)
        union_area == FloatSub(FloatAdd(box1_area, box2_area), inter_area)
    IN  IoUOf(inter_x2 <= inter_x1 \/ inter_y2 <= inter_y1,
              inter_area, union_area)

\* The coordinates and sizes compute_iou is called with: 0, 1/2 and the
\* largest float below 1.
IoUCoords == {0,
              FloatOne \div 2,
              FloatOne - Pow2(FloatScale - MantissaBits)}

IoUBoxes == IoUCoords \X IoUCoords \X IoUCoords \X IoUCoords

\* No value returned yet.
NoResult == -1

\* One call of compute_iou.
ComputeIoU ==
    /\ iou_result = NoResult
    /\ iou_result' = compute_iou(iou_bbox1, iou_bbox2)
    /\ UNCHANGED <<iou_bbox1, iou_bbox2>>
    /\ UNCHANGED <<fbvars, rbvars, stvars, csvars, vsvars, trvars, mvars,
                 cyvars>>

(***************************************************************************)
(* modules/tracker/tracker.py: Track and Tracker.  A track is a record;    *)
(* its field `calls` is history, the update / mark_missed calls made on    *)
(* it.  Track.history feeds compute_velocity only and is left out, as is   *)
(* the label.  Tracker.tracks is a dict filled in id order, so it is       *)
(* walked in ascending id.                                                 *)
(***************************************************************************)
\* `if self.consecutive_hits >= 3`
StableHits_Two == 2

StableHits == 3

\* Track(track_id, label, bbox): the dataclass defaults.
NewTrack(track_id, bbox) ==
    [track_id |-> track_id, bbox |-> bbox, consecutive_hits |-> 0,
     frames_since_update |-> 0, stable |-> FALSE, calls |-> <<>>]

\* Track.update
Track_update_KeepsMisses(track, bbox) ==
    [track EXCEPT !.bbox = bbox,
                  !.consecutive_hits = @ + 1,
                  !.stable = IF track.consecutive_hits + 1 >= StableHits
                             THEN TRUE ELSE @,
                  !.calls = Append(@, "update")]

Track_update(track, bbox) ==
    [track EXCEPT !.bbox = bbox,
                  !.consecutive_hits = @ + 1,
                  !.frames_since_update = 0,
                  !.stable = IF track.consecutive_hits + 1 >= StableHits
                             THEN TRUE ELSE @,
                  !.calls = Append(@, "update")]

\* Track.mark_missed
Track_mark_missed_Unstable(track) ==
    [track EXCEPT !.frames_since_update = @ + 1,
                  !.consecutive_hits = 0,
                  !.stable = FALSE,
                  !.calls = Append(@, "mark_missed")]

Track_mark_missed(track) ==
    [track EXCEPT !.frames_since_update = @ + 1,
                  !.consecutive_hits = 0,
                  !.calls = Append(@, "mark_missed")]

\* Tracker.__init__
NewTracker == [next_track_id |-> 1, tracks |-> <<>>]

\* `self.tracks[track.track_id] = track`
DictSet(d, key, value) ==
    [k \in DOMAIN d \cup {key} |-> IF k = key THEN value ELSE d[k]]

\* `del self.tracks[track_id]` for every key in `keys`
DictDel(d, keys) == [k \in DOMAIN d \ keys |-> d[k]]

\* The id create_track gives to the new track.
NewTrackId_Recycled(tk) == Cardinality(DOMAIN tk.tracks) + 1

NewTrackId(tk) == tk.next_track_id

\* Tracker.create_track
create_track(tk, bbox) ==
    LET track == Track_update(NewTrack(NewTrackId(tk), bbox), bbox)
    IN  [next_track_id |-> tk.next_track_id + 1,
         tracks |-> DictSet(tk.tracks, track.track_id, track)]

\* Tracker.update_track
update_track(tk, track_id, bbox) ==
    [tk EXCEPT !.tracks[track_id] = Track_update(@, bbox)]

\* Tracker.mark_missed_tracks
\* `if track_id not in matched_track_ids`
IsMissed_Never(track_id, matched_track_ids) == FALSE

IsMissed(track_id, matched_track_ids) == track_id \notin matched_track_ids

mark_missed_tracks(tk, matched_track_ids) ==
    [tk EXCEPT !.tracks =
        [id \in DOMAIN tk.tracks |->
            IF IsMissed(id, matched_track_ids)
            THEN Track_mark_missed(tk.tracks[id]) ELSE tk.tracks[id]]]

\* `if track.frames_since_update > self.max_age`
IsOld_AtMaxAge(track) == track.frames_since_update >= MaxAge

IsOld(track) == track.frames_since_update > MaxAge

\* The elements of a set of integers as a list in ascending order.
RECURSIVE Ascending(_)
Ascending(S) ==
    IF S = {} THEN <<>>
    ELSE LET m == CHOOSE x \in S : \A y \in S : x <= y
         IN  <<m>> \o Ascending(S \ {m})

\* Tracker.evict_old_tracks: the tracker left and the list returned.
evict_old_tracks(tk) ==
    LET old == {id \in DOMAIN tk.tracks : IsOld(tk.tracks[id])}
    IN  [tracker |-> [tk EXCEPT !.tracks = DictDel(tk.tracks, old)],
         evicted |-> Ascending(old)]

\* Tracker.get_active_tracks
get_active_tracks(tk) == [id \in DOMAIN tk.tracks |-> tk.tracks[id].bbox]

\* Tracker.get_track: the track, or None.
get_track(tk, track_id) ==
    IF track_id \in DOMAIN tk.tracks THEN tk.tracks[track_id] ELSE None

\* The boxes detections come with: two that overlap and one apart.
BoxA == <<0, 0, FloatOne \div 2, FloatOne \div 2>>
BoxB == <<0, 0, FloatOne \div 2, FloatOne - Pow2(FloatScale - MantissaBits)>>
BoxC == <<FloatOne \div 2, FloatOne \div 2, FloatOne \div 2, FloatOne \div 2>>
TrackerBoxes == {BoxA, BoxB, BoxC}

\* A degenerate box, of zero width, and the boxes the matching is called on.
BoxD == <<0, 0, 0, FloatOne \div 2>>
MatchBoxes == TrackerBoxes \cup {BoxD}

\* Room is left to follow one more call on the track.
CanFollow(track) == Len(track.calls) < MaxTrackCalls

\* A call of create_track.
CreateTrack(bbox) ==
    /\ tracker.next_track_id <= MaxTrackId
    /\ tracker' = create_track(tracker, bbox)
    /\ tr_assigned' = Append(tr_assigned, NewTrackId(tracker))
    /\ UNCHANGED tr_evicted
    /\ UNCHANGED <<fbvars, rbvars, stvars, csvars, vsvars, iouvars, mvars,
                 cyvars>>

\* A call of update_track on a track of the table.
UpdateTrack(track_id, bbox) ==
    /\ track_id \in DOMAIN tracker.tracks
    /\ CanFollow(tracker.tracks[track_id])
    /\ tracker' = update_track(tracker, track_id, bbox)
    /\ UNCHANGED <<tr_assigned, tr_evicted>>
    /\ UNCHANGED <<fbvars, rbvars, stvars, csvars, vsvars, iouvars, mvars,
                 cyvars>>

\* A call of mark_missed_tracks.
MarkMissedTracks(matched_track_ids) ==
    /\ \A id \in DOMAIN tracker.tracks \ matched_track_ids :
           CanFollow(tracker.tracks[id])
    /\ DOMAIN tracker.tracks \ matched_track_ids # {}
    /\ tracker' = mark_missed_tracks(tracker, matched_track_ids)
    /\ UNCHANGED <<tr_assigned, tr_evicted>>
    /\ UNCHANGED <<fbvars, rbvars, stvars, csvars, vsvars, iouvars, mvars,
                 cyvars>>

\* A call of evict_old_tracks.
EvictOldTracks ==
    /\ tracker' = evict_old_tracks(tracker).tracker
    /\ tr_evicted' = evict_old_tracks(tracker).evicted
    /\ UNCHANGED tr_assigned
    /\ UNCHANGED <<fbvars, rbvars, stvars, csvars, vsvars, iouvars, mvars,
                 cyvars>>

NextTracker ==
    \/ \E bbox \in {BoxA, BoxC} : CreateTrack(bbox)
    \/ \E track_id \in 1..MaxTrackId : \E bbox \in {BoxA, BoxC} :
           UpdateTrack(track_id, bbox)
    \/ \E matched \in SUBSET (1..MaxTrackId) : MarkMissedTracks(matched)
    \/ EvictOldTracks

(***************************************************************************)
(* modules/tracker/matching.py: match_detections_to_tracks.  `detections`  *)
(* is the list of the boxes, the detection at position i carrying index    *)
(* i - 1 as enumerate() gives it; `tracks` is a dict walked in ascending   *)
(* id; the lists built from sets are given in ascending order.             *)
(***************************************************************************)
\* A float literal of t tenths.
Tenths(t) == FloatRound(t * FloatOne, 10)

\* The candidate pairs <<det_idx, track_id>> in the order the two loops
\* generate them.
AllPairs(detections, tracks) ==
    LET ids == Ascending(DOMAIN tracks)
        n == Len(ids)
    IN  [k \in 1..(Len(detections) * n) |->
            <<(k - 1) \div n, ids[((k - 1) % n) + 1]>>]

\* compute_iou on the boxes detections come with, computed once.
IoUTable ==
    {<<bbox1, bbox2, compute_iou(bbox1, bbox2)>> :
        bbox1 \in MatchBoxes, bbox2 \in MatchBoxes}

\* `iou = compute_iou(det_bbox, track_bbox)`
PairIoU(detections, tracks, pair) ==
    (CHOOSE t \in IoUTable : /\ t[1] = detections[pair[1] + 1]
                             /\ t[2] = tracks[pair[2]])[3]

\* `if iou >= iou_threshold: iou_matrix[(det_idx, track_id)] = iou`
iou_matrix_Above(detections, tracks, iou_threshold) ==
    SelectSeq(AllPairs(detections, tracks),
              LAMBDA pair : PairIoU(detections, tracks, pair) > iou_threshold)

iou_matrix(detections, tracks, iou_threshold) ==
    SelectSeq(AllPairs(detections, tracks),
              LAMBDA pair : PairIoU(detections, tracks, pair) >= iou_threshold)

\* A sequence without its element at position i.
RemoveAt(seq, i) == SubSeq(seq, 1, i - 1) \o SubSeq(seq, i + 1, Len(seq))

\* sorted(..., key=iou, reverse=True): descending, and stable, so pairs of
\* equal IoU keep the order they were generated in.
\* Whether the item at position i, of key ki, is placed before the item at
\* position j, of key kj.
SortsBefore_Reversed(ki, kj, i, j) == ki > kj \/ (ki = kj /\ i > j)

SortsBefore(ki, kj, i, j) == ki > kj \/ (ki = kj /\ i < j)

RECURSIVE sorted_pairs(_, _, _)
sorted_pairs(pairs, detections, tracks) ==
    IF pairs = <<>> THEN <<>>
    ELSE LET key(i) == PairIoU(detections, tracks, pairs[i])
             first == CHOOSE i \in 1..Len(pairs) :
                          \A j \in 1..Len(pairs) \ {i} :
                              SortsBefore(key(i), key(j), i, j)
         IN  <<pairs[first]>>
             \o sorted_pairs(RemoveAt(pairs, first), detections, tracks)

\* `if det_idx not in matched_detections and track_id not in matched_tracks`
PairIsFree_DetectionOnly(matches, pair) == pair[1] \notin DOMAIN matches

PairIsFree(matches, pair) ==
    /\ pair[1] \notin DOMAIN matches
    /\ \A d \in DOMAIN matches : matches[d] # pair[2]

\* The greedy loop over sorted_pairs.
RECURSIVE GreedyMatches(_, _)
GreedyMatches(pairs, matches) ==
    IF pairs = <<>> THEN matches
    ELSE GreedyMatches(Tail(pairs),
                       IF PairIsFree(matches, Head(pairs))
                       THEN DictSet(matches, Head(pairs)[1], Head(pairs)[2])
                       ELSE matches)

match_detections_to_tracks(detections, tracks, iou_threshold) ==
    LET all_det_indices == {i - 1 : i \in 1..Len(detections)}
        all_track_ids == DOMAIN tracks
        matches ==
            IF detections = <<>> \/ all_track_ids = {} THEN <<>>
            ELSE GreedyMatches(
                     sorted_pairs(iou_matrix(detections, tracks, iou_threshold),
                                  detections, tracks),
                     <<>>)
        matched_detections == DOMAIN matches
        matched_tracks == {matches[d] : d \in DOMAIN matches}
    IN  [matches |-> matches,
         unmatched_detections |->
             Ascending(all_det_indices \ matched_detections),
         unmatched_tracks |-> Ascending(all_track_ids \ matched_tracks)]

\* The arguments the function is called with.
DetectionLists == UNION {[1..n -> MatchBoxes] : n \in 0..MaxDetections}
TrackDicts == UNION {[ids -> MatchBoxes] : ids \in SUBSET (1..MaxTrackId)}
IoUThresholds == {0, Tenths(3), Tenths(7)}

\* One call of match_detections_to_tracks.
MatchDetections ==
    /\ m_result = <<>>
    /\ m_result' = <<match_detections_to_tracks(m_detections, m_tracks,
                                                m_iou_threshold)>>
    /\ UNCHANGED <<m_detections, m_tracks, m_iou_threshold>>
    /\ UNCHANGED <<fbvars, rbvars, stvars, csvars, vsvars, iouvars, trvars,
                 cyvars>>

(***************************************************************************)
(* modules/tracker/module.py: one turn of the loop of _process_detections. *)
(* The turn has no point where it gives way to another task (the bus lock  *)
(* is never waited for), so it is one step.  `published` lists, in order,  *)
(* the TrackUpdate events it hands to result_bus.publish.                  *)
(***************************************************************************)
\* `iou_threshold = self.control_state.tracker_iou_threshold`
iou_threshold_Cached(fields) == Tenths(CSDefaults.tracker_iou_threshold)

iou_threshold_read(fields) == Tenths(fields.tracker_iou_threshold)

\* matches.items(): the pairs in the order the greedy loop put them in.
matches_items(detections, tracks, iou_threshold, matches) ==
    SelectSeq(sorted_pairs(iou_matrix(detections, tracks, iou_threshold),
                           detections, tracks),
              LAMBDA pair : /\ pair[1] \in DOMAIN matches
                            /\ matches[pair[1]] = pair[2])

\* _publish_track_update: the TrackUpdate built from the track.
TrackUpdateOf(track) ==
    [track_id |-> track.track_id, bbox |-> track.bbox,
     stable |-> track.stable]

\* `for det_idx, track_id in matches.items()`: update_track and publish.
RECURSIVE UpdateMatched(_, _, _)
UpdateMatched(acc, items, objects) ==
    IF items = <<>> THEN acc
    ELSE LET track_id == Head(items)[2]
             tk == update_track(acc.tracker, track_id,
                                objects[Head(items)[1] + 1])
         IN  UpdateMatched(
                 [acc EXCEPT !.tracker = tk,
                             !.published =
                                 Append(@, TrackUpdateOf(tk.tracks[track_id]))],
                 Tail(items), objects)

\* `for det_idx in unmatched_dets`: create_track and publish.
RECURSIVE CreateUnmatched(_, _, _)
CreateUnmatched(acc, unmatched_dets, objects) ==
    IF unmatched_dets = <<>> THEN acc
    ELSE LET track_id == NewTrackId(acc.tracker)
             tk == create_track(acc.tracker, objects[Head(unmatched_dets) + 1])
         IN  CreateUnmatched(
                 [acc EXCEPT !.tracker = tk,
                             !.assigned = Append(@, track_id),
                             !.published =
                                 Append(@, TrackUpdateOf(tk.tracks[track_id]))],
                 Tail(unmatched_dets), objects)

\* The end of the turn: what it leaves, returns and publishes.  `m` is what
\* match_detections_to_tracks returned, `created` the tracker and the events
\* after the two loops, `evict` what evict_old_tracks made of it.
CycleEvicted(m, iou_threshold, created, evict) ==
    [tracker |-> evict.tracker,
     evicted |-> evict.evicted,
     assigned |-> created.assigned,
     published |-> created.published,
     cycle |-> [turn |-> 0,
                iou_threshold |-> iou_threshold,
                matches |-> m.matches,
                published |-> created.published,
                objects |-> <<>>,
                before |-> <<>>]]

\* `self.tracker.mark_missed_tracks(matched_track_ids)` and
\* `evicted = self.tracker.evict_old_tracks()`
CycleTracked(m, iou_threshold, created) ==
    CycleEvicted(m, iou_threshold, created,
                 evict_old_tracks(
                     mark_missed_tracks(
                         created.tracker,
                         {m.matches[d] : d \in DOMAIN m.matches})))

\* The two loops over matches.items() and unmatched_dets.
CycleMatched(tk, objects, iou_threshold, active_tracks, m) ==
    CycleTracked(
        m, iou_threshold,
        CreateUnmatched(
            UpdateMatched(
                [tracker |-> tk, assigned |-> <<>>, published |-> <<>>],
                matches_items(objects, active_tracks, iou_threshold, m.matches),
                objects),
            m.unmatched_detections, objects))

\* The body of the loop from the call of match_detections_to_tracks on, for
\* one DetectionResult whose objects have the boxes `objects`.
detection_cycle(tk, objects, iou_threshold) ==
    CycleMatched(tk, objects, iou_threshold, get_active_tracks(tk),
                 match_detections_to_tracks(objects, get_active_tracks(tk),
                                            iou_threshold))

\* The body of the loop under the ControlState fields `fields`.
process_detections(tk, objects, fields) ==
    detection_cycle(tk, objects, iou_threshold_read(fields))

\* `turn` tells one cycle from the next: it flips at every cycle.
\* `objects` and `before` are the boxes of the event of the cycle and the
\* track table the cycle started from.
NoCycle ==
    [turn |-> 0, iou_threshold |-> NoResult, matches |-> <<>>,
     published |-> <<>>, objects |-> <<>>, before |-> <<>>]

\* The tracks the cycle calls update or mark_missed on have room for it.
CycleCanFollow(tk) ==
    /\ \A id \in DOMAIN tk.tracks : CanFollow(tk.tracks[id])
    /\ MaxTrackCalls >= 2

\* The boxes of the objects of the DetectionResult events followed: none,
\* one, two that overlap, two apart, and a degenerate one alone or beside
\* another.
CycleObjects == {<<>>, <<BoxA>>, <<BoxB>>, <<BoxC>>, <<BoxA, BoxB>>,
                 <<BoxA, BoxC>>, <<BoxD>>, <<BoxA, BoxD>>}

\* A DetectionResult reaches the loop of _process_detections.
TrackerCycle(objects) ==
    /\ CycleCanFollow(tracker)
    /\ \E r \in {process_detections(tracker, objects, cs_fields)} :
           \* the ids given stay within those followed
           /\ r.tracker.next_track_id <= MaxTrackId + 1
           /\ tracker' = r.tracker
           /\ tr_assigned' = tr_assigned \o r.assigned
           /\ tr_evicted' = r.evicted
           /\ tr_cycle' = [r.cycle EXCEPT !.turn = 1 - tr_cycle.turn,
                                          !.objects = objects,
                                          !.before = tracker.tracks]
    /\ UNCHANGED <<fbvars, rbvars, stvars, csvars, vsvars, iouvars, mvars,
                 fuvars, pvars, navvars, plvars,
                 lkvars,
                 ftvars>>

(***************************************************************************)
(* modules/fusion/policy.py: FusionPolicy.  Timestamps and cooldowns are   *)
(* integers of milliseconds.                                               *)
(***************************************************************************)
Urgencies == {"low", "medium", "high", "critical"}

\* `if elapsed < cooldown_ms`
CooldownActive_Inclusive(elapsed, cooldown_ms) == elapsed <= cooldown_ms

CooldownActive(elapsed, cooldown_ms) == elapsed < cooldown_ms

\* FusionPolicy.should_announce, on the dict self.last_announced.
should_announce(last_announced, track_id, timestamp_ms, urgency, stable, cooldown_ms) ==
    IF urgency = "critical" THEN TRUE
    ELSE IF ~stable THEN FALSE
    ELSE IF /\ track_id \in DOMAIN last_announced
            /\ CooldownActive(timestamp_ms - last_announced[track_id],
                              cooldown_ms)
         THEN FALSE
         ELSE TRUE

\* FusionPolicy.record_announcement: self.last_announced afterwards.
record_announcement_Forgotten(last_announced, track_id, timestamp_ms) ==
    last_announced

record_announcement(last_announced, track_id, timestamp_ms) ==
    DictSet(last_announced, track_id, timestamp_ms)

\* The arguments should_announce is called with.
Timestamps == {0, 1000, 3000}
CooldownsMs == {0, 1000, 3000}
PolicyTrackIds == 1..MaxTrackId
LastAnnouncedDicts ==
    UNION {[ids -> Timestamps] : ids \in SUBSET PolicyTrackIds}
PolicyArgs == [track_id : PolicyTrackIds, timestamp_ms : Timestamps,
               urgency : Urgencies, stable : BOOLEAN,
               cooldown_ms : CooldownsMs]

\* One call of should_announce.
ShouldAnnounce ==
    /\ p_result = <<>>
    /\ p_result' = <<should_announce(p_last_announced, p_args.track_id,
                                     p_args.timestamp_ms, p_args.urgency,
                                     p_args.stable, p_args.cooldown_ms)>>
    /\ UNCHANGED <<p_last_announced, p_args>>
    /\ UNCHANGED <<fbvars, rbvars, stvars, csvars, vsvars, iouvars, trvars,
                 mvars, tcvars, fuvars, navvars, plvars,
                 lkvars,
                 ftvars>>

(***************************************************************************)
(* modules/fusion/module.py: the two loops of FusionModule.  One turn of   *)
(* either loop is one step.  fusion_cooldown_seconds is kept in tenths of  *)
(* a second; int(seconds * 1000) is exactly 100 times the tenths for every *)
(* value below 32.3 seconds, which covers the values used here.            *)
(***************************************************************************)
\* `cooldown_ms = int(self.control_state.fusion_cooldown_seconds * 1000)`
cooldown_ms_read(fields) == fields.fusion_cooldown_seconds * 100

\* `self.track_stability.get(guidance.track_id, False)`
StabilityOf_DefaultTrue(track_stability, track_id) ==
    IF track_id \in DOMAIN track_stability THEN track_stability[track_id]
    ELSE TRUE

StabilityOf(track_stability, track_id) ==
    IF track_id \in DOMAIN track_stability THEN track_stability[track_id]
    ELSE FALSE

\* The NavigationGuidance events: what the decision reads of them.  Here
\* the events are about one label and carry one text.
FusionTrackIds == {1, 2}
Guidances == [track_id : FusionTrackIds, timestamp_ms : Timestamps,
              urgency : Urgencies, label : {"person"},
              guidance_text : {<<"person", " moving away">>}]

NoDecision ==
    [track_id |-> 0, timestamp_ms |-> 0, urgency |-> "low", label |-> "",
     guidance_text |-> <<>>, stable |-> FALSE, cooldown_ms |-> 0,
     announced |-> FALSE, published |-> <<>>]

\* FusionPolicy.get_priority: priority_map.get(urgency, 5)
get_priority_FromZero(urgency) ==
    IF urgency = "critical" THEN 0
    ELSE IF urgency = "high" THEN 1
    ELSE IF urgency = "medium" THEN 2
    ELSE IF urgency = "low" THEN 3
    ELSE 5

get_priority(urgency) ==
    IF urgency = "critical" THEN 1
    ELSE IF urgency = "high" THEN 2
    ELSE IF urgency = "medium" THEN 3
    ELSE IF urgency = "low" THEN 4
    ELSE 5

\* FusionPolicy.get_announcement_kind
get_announcement_kind(label) ==
    IF label \in {"hazard", "obstacle"} THEN "hazard"
    ELSE IF label \in {"person", "vehicle"} THEN "object"
    ELSE "navigation"

\* `FusionAnnouncement(timestamp_ms=..., text=..., kind=..., priority=...)`
FusionAnnouncement(guidance) ==
    [type |-> "FusionAnnouncement",
     timestamp_ms |-> guidance.timestamp_ms,
     text |-> guidance.guidance_text,
     kind |-> get_announcement_kind(guidance.label),
     priority |-> get_priority(guidance.urgency)]

\* `if self.policy.announcement_count % 100 == 0 and
\*     self.policy.announcement_count > 0`, read after the decision
MetricIsDue(count) == count % MetricEvery = 0 /\ count > 0

\* `SystemMetric(timestamp_ms=..., name=..., value=float(count))`
SystemMetric(guidance, count) ==
    [type |-> "SystemMetric",
     timestamp_ms |-> guidance.timestamp_ms,
     name |-> "fusion.announcements.count",
     value |-> count]

\* _monitor_track_stability: a TrackUpdate reaches the loop.
MonitorStability(track_id, stable) ==
    /\ fu_track_stability' = DictSet(fu_track_stability, track_id, stable)
    /\ UNCHANGED <<fu_last_announced, fu_announced, fu_decision, fu_decisions,
                   fu_metrics>>
    /\ UNCHANGED <<fbvars, rbvars, stvars, csvars, vsvars, iouvars, trvars,
                 mvars, tcvars, pvars, navvars, plvars,
                 lkvars,
                 ftvars>>

\* _process_guidance: a NavigationGuidance reaches the loop.  `published`
\* lists, in order, the events the turn hands to result_bus.publish.
FusionDecision(guidance) ==
    /\ fu_decisions < MaxGuidance
    /\ LET stable == StabilityOf(fu_track_stability, guidance.track_id)
           cooldown_ms == cooldown_ms_read(cs_fields)
           announce == should_announce(fu_last_announced, guidance.track_id,
                                       guidance.timestamp_ms, guidance.urgency,
                                       stable, cooldown_ms)
           count == announcement_count + (IF announce THEN 1 ELSE 0)
           metrics == IF MetricIsDue(count)
                      THEN <<SystemMetric(guidance, count)>> ELSE <<>>
       IN  /\ fu_decision' = [track_id |-> guidance.track_id,
                              timestamp_ms |-> guidance.timestamp_ms,
                              urgency |-> guidance.urgency,
                              label |-> guidance.label,
                              guidance_text |-> guidance.guidance_text,
                              stable |-> stable,
                              cooldown_ms |-> cooldown_ms,
                              announced |-> announce,
                              published |->
                                  (IF announce
                                   THEN <<FusionAnnouncement(guidance)>>
                                   ELSE <<>>) \o metrics]
           /\ fu_decisions' = fu_decisions + 1
           /\ fu_metrics' = fu_metrics + Len(metrics)
           /\ IF announce
              THEN /\ fu_announced' = DictSet(fu_announced, guidance.track_id,
                                              guidance.timestamp_ms)
                   /\ fu_last_announced' =
                          record_announcement(fu_last_announced,
                                              guidance.track_id,
                                              guidance.timestamp_ms)
                   /\ announcement_count' = announcement_count + 1
              ELSE UNCHANGED <<fu_announced, fu_last_announced,
                               announcement_count>>
    /\ UNCHANGED <<fu_track_stability, running>>
    /\ UNCHANGED <<fbvars, rbvars, csvars, vsvars, iouvars, trvars, mvars,
                 tcvars, pvars, navvars, plvars,
                 lkvars,
                 ftvars>>

\* The thresholds the UI sets (ui/server.py: set_threshold), in tenths.
TrackerThresholdKwargs == {<<<<"tracker_iou_threshold", v>>>> : v \in {3, 7}}
FusionCooldownKwargs == {<<<<"fusion_cooldown_seconds", v>>>> : v \in {10, 30}}

\* The tracker stage at work while the UI sets its threshold.
TrackerStageNext ==
    \/ \E objects \in CycleObjects : TrackerCycle(objects)
    \/ \E kwargs \in TrackerThresholdKwargs : CSUpdateEnter("ui", kwargs)
    \/ CSUpdateField("ui")
    \/ CSUpdateExit("ui")

\* The fusion stage at work while the UI sets its cooldown.
FusionStageNext ==
    \/ \E guidance \in Guidances : FusionDecision(guidance)
    \/ \E track_id \in FusionTrackIds : \E stable \in BOOLEAN :
           MonitorStability(track_id, stable)
    \/ \E kwargs \in FusionCooldownKwargs : CSUpdateEnter("ui", kwargs)
    \/ CSUpdateField("ui")
    \/ CSUpdateExit("ui")

(***************************************************************************)
(* modules/navigation: compute_urgency (spatial.py) and                    *)
(* generate_guidance_text (guidance.py), the two functions that            *)
(* _process_tracks calls with the zone and the movement of a track.  An    *)
(* f-string is kept as the tuple of its parts.                             *)
(***************************************************************************)
Zones == {"near", "mid", "far"}
Movements == {"approaching", "receding", "stationary"}
Directions == {"left", "center", "right"}
Labels == {"person", "vehicle", "hazard", "obstacle", "door"}

\* `if zone == "near" and movement == "approaching"`
IsCritical_NearOnly(zone, movement) == zone = "near"

IsCritical(zone, movement) == zone = "near" /\ movement = "approaching"

\* spatial.py: compute_urgency
compute_urgency(zone, movement) ==
    IF IsCritical(zone, movement) THEN "critical"
    ELSE IF zone = "near" THEN "high"
    ELSE IF zone = "mid" /\ movement = "approaching" THEN "medium"
    ELSE "low"

\* guidance.py: generate_guidance_text
generate_guidance_text(label, direction, zone, movement) ==
    IF zone = "near" /\ movement = "approaching"
    THEN <<label, " very close, ", direction>>
    ELSE IF movement = "approaching"
    THEN IF zone = "mid" THEN <<label, " approaching on ", direction>>
         ELSE <<label, " detected ", direction>>
    ELSE IF movement = "stationary"
    THEN IF zone = "near" THEN <<label, " nearby on ", direction>>
         ELSE IF zone = "mid" THEN <<label, " ahead on ", direction>>
         ELSE <<label, " ", direction>>
    ELSE IF movement = "receding" THEN <<label, " moving away">>
    ELSE <<label, " ", direction>>

NavArgs == [label : Labels, direction : Directions, zone : Zones,
            movement : Movements]

\* The two calls, on the arguments drawn.
ComputeGuidance ==
    /\ nav_result = <<>>
    /\ nav_result' =
           <<[urgency |-> compute_urgency(nav_args.zone, nav_args.movement),
              guidance_text |->
                  generate_guidance_text(nav_args.label, nav_args.direction,
                                         nav_args.zone, nav_args.movement)]>>
    /\ UNCHANGED nav_args
    /\ UNCHANGED <<fbvars, rbvars, stvars, csvars, vsvars, iouvars, trvars,
                 mvars, tcvars, fuvars, pvars, plvars,
                 lkvars,
                 ftvars>>

\* The NavigationGuidance events _process_tracks builds: the urgency and the
\* text are those computed from the zone and the movement of the track.
GuidanceDirections == {"left"}
GuidanceTimestamps == {0, 1000}
NavigationGuidances ==
    {[track_id |-> track_id, timestamp_ms |-> timestamp_ms,
      urgency |-> compute_urgency(zm[1], zm[2]), label |-> label,
      guidance_text |-> generate_guidance_text(label, direction, zm[1], zm[2])] :
        track_id \in {1}, timestamp_ms \in GuidanceTimestamps,
        label \in Labels, direction \in GuidanceDirections,
        zm \in Zones \X Movements}

\* The fusion stage fed by the navigation stage.
FusionEventsNext ==
    \/ \E guidance \in NavigationGuidances : FusionDecision(guidance)
    \/ \E stable \in BOOLEAN : MonitorStability(1, stable)

(***************************************************************************)
(* The pipeline: the four stages of ReplaySystem.modules started together  *)
(* on the two buses, fed by the video source.  pl_origin keeps, for each   *)
(* event published, the frame and the detection it derives from.           *)
(***************************************************************************)
\* The events the frames followed can lead to: a DetectionResult and, for
\* each detection, a TrackUpdate, a NavigationGuidance and a
\* FusionAnnouncement.
PipelineMaxEvents == MaxPipelineFrames * (1 + 3 * MaxDetections)

\* Derived from detection `det` of frame `frame`; n is the number of objects
\* of a DetectionResult.
Origin(frame, det, n) == [frame |-> frame, det |-> det, n |-> n]

\* The origin of the event task t is about to take.
HeadOrigin(t) ==
    IF rb_queue[t] # <<>> /\ Head(rb_queue[t]).id > 0
    THEN pl_origin[Head(rb_queue[t]).id]
    ELSE Origin(0, 0, 0)

\* The event task t is about to take reaches its loop body.
ReachesBody(t) ==
    /\ rb_pc[t] = "subscribed"
    /\ rb_queue[t] # <<>>
    /\ Head(rb_queue[t]) # None
    /\ RBYields(RBFilter[t], Head(rb_queue[t]))
    /\ ~StageBreaks(ModuleOf[t])

\* The events the step publishes get the origins origin(1), origin(2), ...
Derive(origin(_)) ==
    pl_origin' = pl_origin \o [i \in 1..(rb_event_count' - rb_event_count) |->
                                  origin(i)]

\* The variables of the components the pipeline steps leave alone.
restvars ==
    <<vsvars, iouvars, trvars, mvars, tcvars, fuvars, pvars, navvars,
      lkvars, ftvars>>

\* ReplaySystem.start(): start() of every module in the order of
\* self.modules; the tasks created have their first runs, in the order
\* they were created, when start() first gives way to the event loop.
PipelineTasks == TasksOf["ObjectDetection"] \o TasksOf["Tracker"]
                 \o TasksOf["Navigation"] \o TasksOf["Fusion"]

PipelineStart ==
    /\ \A t \in Tasks : TaskPc(t) = "unstarted"
    /\ running' = [m \in Modules |-> TRUE]
    /\ fb_subscribers' =
           fb_subscribers \o SelectSeq(PipelineTasks, LAMBDA t : t \in FBTasks)
    /\ rb_subscribers' =
           rb_subscribers \o SelectSeq(PipelineTasks, LAMBDA t : t \in RBTasks)
    /\ fb_pc' = [s \in FBSubs |-> IF s \in FBTasks THEN "subscribed"
                                  ELSE fb_pc[s]]
    /\ rb_pc' = [s \in RBSubs |-> IF s \in RBTasks THEN "subscribed"
                                  ELSE rb_pc[s]]
    /\ fb_queue' = [s \in FBSubs |-> IF s \in FBTasks THEN <<>> ELSE fb_queue[s]]
    /\ rb_queue' = [s \in RBSubs |-> IF s \in RBTasks THEN <<>> ELSE rb_queue[s]]
    /\ fb_since' = [s \in FBSubs |-> IF s \in FBTasks THEN fb_frame_count
                                     ELSE fb_since[s]]
    /\ UNCHANGED fb_hist
    /\ UNCHANGED fb_hist
    /\ UNCHANGED <<fb_frame_count, fb_dropped_count, fb_received,
                   fb_shutdown_called, fb_at_shutdown, fb_raised>>
    /\ UNCHANGED <<rb_event_count, rb_taken, rb_received, rb_log,
                   rb_shutdown_called, rb_at_shutdown, rb_raised, rb_warnings>>
    /\ UNCHANGED <<announcement_count, csvars, extvars>>

\* VideoSource.run(): the next frame is published.
PipelineFrame(max_frames) == fb_frame_count < max_frames /\ FBPublish

\* _process_frames: the detector returns n detections that pass the
\* confidence threshold.
PipelineDetect(n, max_events) ==
    /\ ProcessFramesTurn(max_events, FALSE)
    /\ Derive(LAMBDA i : Origin(Head(fb_queue["process_frames"]).id, 0, n))
    /\ UNCHANGED <<pl_failed, pl_propagated, restvars>>

\* `for det_idx, track_id in matches.items()` and `for det_idx in
\* unmatched_dets`: every detection is in one of the two, and each turn of
\* the two loops publishes one TrackUpdate.
TrackUpdatesFor(n) == [i \in 1..n |-> "TrackUpdate"]

\* _process_tracks: `await self.result_bus.publish(guidance)`
NavigationOutputs_None == <<>>

NavigationOutputs == <<"NavigationGuidance">>

\* What the loop body of task t publishes for the event it is about to
\* take; `announces` is what should_announce returns.
PipelineOutputs(t, announces) ==
    IF t = "process_detections" THEN TrackUpdatesFor(HeadOrigin(t).n)
    ELSE IF t = "process_tracks" THEN NavigationOutputs
    ELSE IF t = "process_guidance" /\ announces
    THEN <<"FusionAnnouncement">>
    ELSE <<>>

\* The origin of the i-th event task t publishes in the step.
PipelineOrigin(t, i) ==
    IF t = "process_detections" THEN Origin(HeadOrigin(t).frame, i, 0)
    ELSE Origin(HeadOrigin(t).frame, HeadOrigin(t).det, 0)

\* One turn of the loop of task t of the result bus.
PipelineTurn(t, announces, max_events) ==
    /\ RBLoopTurn(t, PipelineOutputs(t, announces),
                  IF t = "process_guidance" /\ announces THEN 1 ELSE 0,
                  max_events, FALSE)
    /\ Derive(LAMBDA i : PipelineOrigin(t, i))
    /\ UNCHANGED <<pl_failed, pl_propagated, restvars>>

\* The turns of the five tasks, every event a frame leads to being followed.
LiveDetect ==
    \E n \in 0..MaxDetections : PipelineDetect(n, PipelineMaxEvents)
LiveTrack == PipelineTurn("process_detections", FALSE, PipelineMaxEvents)
LiveNavigate == PipelineTurn("process_tracks", FALSE, PipelineMaxEvents)
LiveFuse ==
    \E announces \in BOOLEAN :
        PipelineTurn("process_guidance", announces, PipelineMaxEvents)
LiveMonitor == PipelineTurn("monitor_track_stability", FALSE, PipelineMaxEvents)

\* `except Exception as e: logger.error(...)` around the loop: what the
\* handler catches of what processing an event raises.
StageCatches_Nothing(exception) == FALSE

StageCatches(exception) == exception = "Exception"

\* The task the exception leaves: ended by the handler, or ended with the
\* exception as its result.
RaisedIn(t) ==
    /\ pl_failed' = DictSet(pl_failed, t, [rb |-> rb_event_count',
                                           fb |-> fb_frame_count'])
    /\ pl_propagated' = IF StageCatches("Exception") THEN pl_propagated
                        ELSE pl_propagated \cup {t}

\* Processing the event raises in the loop body of task t of the result
\* bus, after `published` of its publish calls.
PipelineRaises(t) ==
    /\ ReachesBody(t)
    /\ \E published \in 0..Max(0, Len(PipelineOutputs(t, FALSE)) - 1) :
           RBLoopTurn(t, SubSeq(PipelineOutputs(t, FALSE), 1, published), 0,
                      MaxEvents, TRUE)
    /\ Derive(LAMBDA i : PipelineOrigin(t, i))
    /\ RaisedIn(t)
    /\ UNCHANGED restvars

\* The detector raises on a frame.
PipelineDetectRaises ==
    /\ fb_pc["process_frames"] = "subscribed"
    /\ fb_queue["process_frames"] # <<>>
    /\ Head(fb_queue["process_frames"]) # None
    /\ ~StageBreaks("ObjectDetection")
    /\ ProcessFramesTurn(MaxEvents, TRUE)
    /\ UNCHANGED pl_origin
    /\ RaisedIn("process_frames")
    /\ UNCHANGED restvars

\* The pipeline at work, no stage failing.
NextPipelineLive ==
    \/ PipelineStart
    \/ PipelineFrame(MaxPipelineFrames)
    \/ LiveDetect
    \/ LiveTrack
    \/ LiveNavigate
    \/ LiveFuse
    \/ LiveMonitor

\* The pipeline with loop bodies that may raise, MaxEvents events followed.
NextPipeline ==
    \/ PipelineStart
    \/ PipelineFrame(MaxPipelineFrames + 1)
    \/ \E n \in 0..MaxDetections : PipelineDetect(n, MaxEvents)
    \/ \E t \in RBTasks : \E announces \in BOOLEAN :
           PipelineTurn(t, announces, MaxEvents)
    \/ \E t \in RBTasks : PipelineRaises(t)
    \/ PipelineDetectRaises
    \/ \E t \in Tasks : TaskFinalize(t)

(***************************************************************************)
(* The bus locks and the suspension points of the tasks.  The event loop   *)
(* runs one task at a time, from one suspension point to the next: a task  *)
(* is followed here statement by statement, and another task gets to run   *)
(* only when the running one suspends or ends.                             *)
(***************************************************************************)
\* What the tasks followed statement by statement leave alone.
nonlk == <<fbvars, rbvars, stvars, csvars, vsvars, iouvars, trvars, mvars,
           tcvars, fuvars, pvars, navvars, plvars,
           ftvars>>
nonft == <<fbvars, rbvars, stvars, csvars, vsvars, iouvars, trvars, mvars,
           tcvars, fuvars, pvars, navvars, plvars, lkvars>>

LockBuses == {"frame", "result"}
LockConsumers == {"process_frames", "process_detections"}
LockTasks == {"video_source", "stop"} \cup LockConsumers

\* The bus each consumer subscribes to, and the capacity of its queue.
LockBusOf == [process_frames |-> "frame", process_detections |-> "result"]
LockMaxsize == [frame |-> FBQueueMaxsize, result |-> RBQueueMaxsize]

\* The position of a task: the call it is in, the bus of the call, where it
\* is in the call (ready to run, at the call, inside the locked body,
\* suspended, done), and the publish calls its loop body has still to make.
LockPc(op, bus, at, left) == [op |-> op, bus |-> bus, at |-> at, left |-> left]
LockDone == LockPc("done", "none", "done", 0)

\* The calls whose body is `async with self._lock:`.
LockedOps == {"publish", "register", "deregister", "shutdown"}

\* publish() and shutdown() fill the queues with put_nowait(), which
\* returns or raises at once; `await queue.put()` would suspend on a full
\* queue.
PutSuspends_WhenFull(q, maxsize) == QueueFull(q, maxsize)

PutSuspends(q, maxsize) == FALSE

\* The body of publish() on bus b has to wait for room in some queue.
PublishSuspends(b) ==
    \E s \in Range(lk_subscribers[b]) :
        PutSuspends(IF b = "frame" THEN FBEvict(lk_queue[s]) ELSE lk_queue[s],
                    LockMaxsize[b])

\* The item a publish call on bus b puts on the queues.
LockItem(t, b) ==
    IF b = "frame" THEN Frame(lk_count[b])
    ELSE Event(IF t = "process_frames" THEN "DetectionResult"
               ELSE "TrackUpdate", lk_count[b])

\* What a task does after a call has returned.
LockAfter(t, pc) ==
    IF t = "video_source"                        \* await asyncio.sleep(delay)
    THEN LockPc("sleep", "none", "suspended", 0)
    ELSE IF t = "stop"
    THEN IF pc.bus = "frame" THEN LockPc("shutdown", "result", "call", 0)
         ELSE LockPc("cancel", "none", "call", 0)
    ELSE IF pc.op = "deregister" THEN LockDone
    ELSE IF pc.op = "publish" /\ pc.left > 0
    THEN LockPc("publish", "result", "call", pc.left - 1)
    ELSE LockPc("get", LockBusOf[t], "call", 0)

\* `async with self._lock:` acquires the lock at once when it is free, and
\* suspends the task otherwise.
LockEnter(t) ==
    /\ lk_running = t
    /\ lk_pc[t].op \in LockedOps /\ lk_pc[t].at = "call"
    /\ IF lk_lock[lk_pc[t].bus] = "free"
       THEN /\ lk_lock' = [lk_lock EXCEPT ![lk_pc[t].bus] = t]
            /\ lk_pc' = [lk_pc EXCEPT ![t].at = "locked"]
            /\ lk_count' = [lk_count EXCEPT ![lk_pc[t].bus] =
                               IF lk_pc[t].op = "publish" THEN @ + 1 ELSE @]
            /\ UNCHANGED lk_running
       ELSE /\ lk_pc' = [lk_pc EXCEPT ![t].at = "waiting"]
            /\ lk_running' = "none"
            /\ UNCHANGED <<lk_lock, lk_count>>
    /\ UNCHANGED <<lk_queue, lk_subscribers>>
    /\ UNCHANGED nonlk

\* The queues after the body of the call of task t.
LockQueues(t) ==
    LET pc == lk_pc[t] IN
    [s \in LockConsumers |->
        IF s \notin Range(lk_subscribers[pc.bus]) THEN lk_queue[s]
        ELSE IF pc.op = "publish" /\ pc.bus = "frame"
        THEN FBPublishOne(lk_queue[s], LockItem(t, pc.bus)).q
        ELSE IF pc.op = "publish"
        THEN RBPublishOne(lk_queue[s], LockItem(t, pc.bus)).q
        ELSE IF pc.op = "shutdown"
        THEN PutNowait(lk_queue[s], None, LockMaxsize[pc.bus]).q
        ELSE lk_queue[s]]

\* The body under the lock, to the end of the `async with` block, which
\* releases the lock.
LockBody(t) ==
    /\ lk_running = t
    /\ lk_pc[t].at = "locked"
    /\ LET pc == lk_pc[t] IN
       IF pc.op = "publish" /\ PublishSuspends(pc.bus)
       THEN /\ lk_pc' = [lk_pc EXCEPT ![t].at = "putting"]
            /\ lk_running' = "none"
            /\ UNCHANGED <<lk_lock, lk_queue, lk_subscribers>>
       ELSE /\ lk_queue' = LockQueues(t)
            /\ lk_subscribers' =
                   [lk_subscribers EXCEPT ![pc.bus] =
                       IF pc.op = "register" THEN Append(@, t)
                       ELSE IF pc.op = "deregister" THEN Unregister(@, t)
                       ELSE @]
            /\ lk_lock' = [lk_lock EXCEPT ![pc.bus] = "free"]
            /\ lk_pc' = [lk_pc EXCEPT ![t] = LockAfter(t, pc)]
            /\ lk_running' =
                   IF LockAfter(t, pc).at \in {"suspended", "done"}
                   THEN "none" ELSE t
    /\ UNCHANGED lk_count
    /\ UNCHANGED nonlk

\* `await queue.get()` in subscribe() / subscribe_all(): suspends on an
\* empty queue; None ends the loop and the finally clause deregisters; the
\* detector publishes a DetectionResult for every frame; the tracker
\* publishes a TrackUpdate for each of the `tracks` objects of a
\* DetectionResult and passes over the events of other types.
LockGet(t, tracks) ==
    /\ lk_running = t
    /\ lk_pc[t].op = "get" /\ lk_pc[t].at = "call"
    /\ IF lk_queue[t] = <<>>
       THEN /\ lk_pc' = [lk_pc EXCEPT ![t].at = "suspended"]
            /\ lk_running' = "none"
            /\ tracks = 0
            /\ UNCHANGED lk_queue
       ELSE /\ lk_queue' = [lk_queue EXCEPT ![t] = Tail(@)]
            /\ UNCHANGED lk_running
            /\ LET item == Head(lk_queue[t]) IN
               IF item = None
               THEN /\ tracks = 0
                    /\ lk_pc' = [lk_pc EXCEPT ![t] =
                           LockPc("deregister", LockBusOf[t], "call", 0)]
               ELSE IF t = "process_frames"
               THEN /\ tracks = 0
                    /\ lk_pc' = [lk_pc EXCEPT ![t] =
                           LockPc("publish", "result", "call", 0)]
               ELSE IF item.type = "DetectionResult" /\ tracks > 0
               THEN lk_pc' = [lk_pc EXCEPT ![t] =
                           LockPc("publish", "result", "call", tracks - 1)]
               ELSE tracks = 0 /\ UNCHANGED lk_pc
    /\ UNCHANGED <<lk_lock, lk_subscribers, lk_count>>
    /\ UNCHANGED nonlk

\* A suspended task can go on: its queue has an item, its sleep is over,
\* the lock it waits for is free, the queue it puts on has room; a task
\* that has not run yet is ready.
LockReady(t) ==
    LET pc == lk_pc[t] IN
    \/ pc.at = "ready"
    \/ pc.op = "get" /\ pc.at = "suspended" /\ lk_queue[t] # <<>>
    \/ pc.op = "sleep" /\ pc.at = "suspended"
    \/ pc.at = "waiting" /\ lk_lock[pc.bus] = "free"
    \/ pc.at = "putting" /\ ~PublishSuspends(pc.bus)

\* The event loop runs a ready task; the source goes on to its next frame
\* or ends: `while self.running and self.current_frame_id < total_frames`.
LockResume(t) ==
    /\ lk_running = "none"
    /\ LockReady(t)
    /\ lk_running' = IF lk_pc[t].op = "sleep" /\ lk_count["frame"] >= MaxFrames
                     THEN "none" ELSE t
    /\ lk_pc' = [lk_pc EXCEPT ![t] =
           IF @.op = "sleep"
           THEN IF lk_count["frame"] < MaxFrames
                THEN LockPc("publish", "frame", "call", 0) ELSE LockDone
           ELSE IF @.at = "putting" THEN [@ EXCEPT !.at = "locked"]
           ELSE [@ EXCEPT !.at = "call"]]
    /\ UNCHANGED <<lk_lock, lk_queue, lk_subscribers, lk_count>>
    /\ UNCHANGED nonlk

\* stop(), after the two shutdown() calls: task.cancel() on every task that
\* is not done.  CancelledError is raised at the await the task is suspended
\* in; in a consumer it passes through the finally clause of subscribe(),
\* which deregisters the queue under the lock.  A caller of shutdown() other
\* than stop() cancels nothing.
LockCancelled(t) ==
    IF lk_pc[t].at = "done" THEN LockDone
    ELSE IF t \in LockConsumers /\ t \in Range(lk_subscribers[LockBusOf[t]])
    THEN LockPc("deregister", LockBusOf[t], "ready", 0)
    ELSE LockDone

LockCancel(cancels) ==
    /\ lk_running = "stop"
    /\ lk_pc["stop"].op = "cancel"
    /\ lk_pc' = [t \in LockTasks |->
                    IF t = "stop" THEN LockDone
                    ELSE IF cancels THEN LockCancelled(t) ELSE lk_pc[t]]
    /\ lk_running' = "none"
    /\ UNCHANGED <<lk_lock, lk_queue, lk_subscribers, lk_count>>
    /\ UNCHANGED nonlk

NextLock ==
    \/ \E t \in LockTasks : LockResume(t)
    \/ \E t \in LockTasks : LockEnter(t)
    \/ \E t \in LockTasks : LockBody(t)
    \/ \E t \in LockConsumers : \E tracks \in 0..MaxDetections : LockGet(t, tracks)
    \/ \E cancels \in BOOLEAN : LockCancel(cancels)

(***************************************************************************)
(* Navigation and fusion on the event loop: _process_tracks,               *)
(* _process_guidance and _monitor_track_stability each read their own      *)
(* ResultBus queue through subscribe_type.  A task runs until its          *)
(* `await queue.get()` finds the queue empty; put_nowait wakes a waiting   *)
(* getter by appending its task to the ready queue.                        *)
(***************************************************************************)
\* The tasks in the order run_replay.py starts them (navigation, then
\* fusion's task1 and task2), which is the order of ResultBus.subscribers.
FusionTasks ==
    <<"_process_tracks", "_process_guidance", "_monitor_track_stability">>

\* The event type each task passes to subscribe_type.
FusionTaskType ==
    [t \in Range(FusionTasks) |->
        IF t = "_process_guidance" THEN "NavigationGuidance"
        ELSE "TrackUpdate"]

\* `TrackUpdate(track_id=..., timestamp_ms=..., label=..., stable=...)`
TrackUpdateEvent(track_id, timestamp_ms, stable) ==
    [type |-> "TrackUpdate", track_id |-> track_id,
     timestamp_ms |-> timestamp_ms, label |-> "person", stable |-> stable]

\* `NavigationGuidance(timestamp_ms=event.timestamp_ms,
\*                     track_id=event.track_id, ...)`
NavigationGuidanceOf(event, urgency) ==
    [type |-> "NavigationGuidance", track_id |-> event.track_id,
     timestamp_ms |-> event.timestamp_ms, label |-> event.label,
     urgency |-> urgency,
     guidance_text |-> <<event.label, " moving away">>]

\* Track.update: `if self.consecutive_hits >= stable_hits: self.stable =
\* True`, never reset: the values `stable` can take in the next TrackUpdate
\* of a track, given the updates published so far.
TrackerStableValues(published, track_id) ==
    {stable \in BOOLEAN :
        IF stable THEN \E u \in published : u.track_id = track_id
        ELSE \A u \in published : u.track_id = track_id => ~u.stable}

\* ResultBus.publish(event) with every task registered: put_nowait on each
\* queue in the order of subscribers, QueueFull skipped; a task waiting in
\* get() is woken, i.e. appended to the ready queue.
FtPublish(loop, event) ==
    [queue |-> [t \in Range(FusionTasks) |->
                   RBPublishOne(loop.queue[t], event).q],
     waiting |-> {},
     ready |-> loop.ready \o
               SelectSeq(FusionTasks, LAMBDA t : t \in loop.waiting)]

RECURSIVE FtPublishAll(_, _)
FtPublishAll(loop, events) ==
    IF events = <<>> THEN loop
    ELSE FtPublishAll(FtPublish(loop, Head(events)), Tail(events))

FtLoop == [queue |-> ft_queue, waiting |-> ft_waiting, ready |-> ft_ready]

FtLoopBecomes(loop) ==
    /\ ft_queue' = loop.queue
    /\ ft_waiting' = loop.waiting
    /\ ft_ready' = loop.ready

NoEval ==
    [track_id |-> 0, timestamp_ms |-> 0, urgency |-> "low", stable |-> FALSE,
     announced |-> FALSE]

\* TrackerModule._process_detections publishes one TrackUpdate while no
\* task of navigation or fusion runs.
FtTrackerPublishes(track_id, stable) ==
    /\ ft_running = "none"
    /\ Cardinality(ft_published) < MaxUpdates
    /\ stable \in TrackerStableValues(ft_published, track_id)
    /\ LET event == TrackUpdateEvent(
                        track_id, 1000 * (Cardinality(ft_published) + 1),
                        stable)
       IN  /\ ft_published' = ft_published \cup {event}
           /\ FtLoopBecomes(FtPublish(FtLoop, event))
    /\ UNCHANGED <<ft_running, ft_track_stability, ft_last_announced,
                   ft_count, ft_eval>>
    /\ UNCHANGED nonft

\* The event loop takes the next task to run: the oldest of the ready
\* queue (`fifo`), or any ready task.
FtResume(t, fifo) ==
    /\ ft_running = "none"
    /\ ft_ready # <<>>
    /\ IF fifo THEN t = Head(ft_ready) ELSE t \in Range(ft_ready)
    /\ ft_running' = t
    /\ ft_ready' = SelectSeq(ft_ready, LAMBDA r : r # t)
    /\ UNCHANGED <<ft_queue, ft_waiting, ft_track_stability,
                   ft_last_announced, ft_count, ft_published, ft_eval>>
    /\ UNCHANGED nonft

\* `event = await queue.get()` on the empty queue: the task suspends.
FtSuspend(t) ==
    /\ ft_running = t
    /\ ft_queue[t] = <<>>
    /\ ft_running' = "none"
    /\ ft_waiting' = ft_waiting \cup {t}
    /\ UNCHANGED <<ft_queue, ft_ready, ft_track_stability, ft_last_announced,
                   ft_count, ft_published, ft_eval>>
    /\ UNCHANGED nonft

\* subscribe_type: `if isinstance(event, event_type): yield event`; an
\* event of another type is read and passed over.
FtSkip(t) ==
    /\ ft_running = t
    /\ ft_queue[t] # <<>>
    /\ QueueGet(ft_queue[t]).item.type # FusionTaskType[t]
    /\ ft_queue' = [ft_queue EXCEPT ![t] = QueueGet(ft_queue[t]).rest]
    /\ UNCHANGED <<ft_waiting, ft_ready, ft_running, ft_track_stability,
                   ft_last_announced, ft_count, ft_published, ft_eval>>
    /\ UNCHANGED nonft

\* NavigationModule._process_tracks: one TrackUpdate becomes one
\* NavigationGuidance, published before the next get().
FtNavigation(urgency) ==
    LET t == "_process_tracks"
        got == QueueGet(ft_queue[t])
    IN  /\ ft_running = t
        /\ ft_queue[t] # <<>>
        /\ got.item.type = FusionTaskType[t]
        /\ FtLoopBecomes(
               FtPublish([FtLoop EXCEPT !.queue[t] = got.rest],
                         NavigationGuidanceOf(got.item, urgency)))
        /\ UNCHANGED <<ft_running, ft_track_stability, ft_last_announced,
                       ft_count, ft_published, ft_eval>>
        /\ UNCHANGED nonft

\* FusionModule._monitor_track_stability:
\* `self.track_stability[event.track_id] = event.stable`
FtMonitor ==
    LET t == "_monitor_track_stability"
        got == QueueGet(ft_queue[t])
    IN  /\ ft_running = t
        /\ ft_queue[t] # <<>>
        /\ got.item.type = FusionTaskType[t]
        /\ ft_queue' = [ft_queue EXCEPT ![t] = got.rest]
        /\ ft_track_stability' =
               DictSet(ft_track_stability, got.item.track_id, got.item.stable)
        /\ UNCHANGED <<ft_waiting, ft_ready, ft_running, ft_last_announced,
                       ft_count, ft_published, ft_eval>>
        /\ UNCHANGED nonft

\* FusionModule._process_guidance: the decision on one NavigationGuidance
\* and the publishes that follow it.
FtGuidance ==
    LET t == "_process_guidance"
        got == QueueGet(ft_queue[t])
        guidance == got.item
    IN  /\ ft_running = t
        /\ ft_queue[t] # <<>>
        /\ guidance.type = FusionTaskType[t]
        /\ LET stable == StabilityOf(ft_track_stability, guidance.track_id)
               announce == should_announce(
                               ft_last_announced, guidance.track_id,
                               guidance.timestamp_ms, guidance.urgency,
                               stable, cooldown_ms_read(cs_fields))
               count == ft_count + (IF announce THEN 1 ELSE 0)
               published ==
                   (IF announce THEN <<FusionAnnouncement(guidance)>>
                    ELSE <<>>)
                   \o (IF MetricIsDue(count)
                       THEN <<SystemMetric(guidance, count)>> ELSE <<>>)
           IN  /\ ft_eval' = [track_id |-> guidance.track_id,
                              timestamp_ms |-> guidance.timestamp_ms,
                              urgency |-> guidance.urgency,
                              stable |-> stable,
                              announced |-> announce]
               /\ ft_count' = count
               /\ ft_last_announced' =
                      IF announce
                      THEN record_announcement(ft_last_announced,
                                               guidance.track_id,
                                               guidance.timestamp_ms)
                      ELSE ft_last_announced
               /\ FtLoopBecomes(
                      FtPublishAll([FtLoop EXCEPT !.queue[t] = got.rest],
                                   published))
        /\ UNCHANGED <<ft_running, ft_track_stability, ft_published>>
        /\ UNCHANGED nonft

\* One step of the tasks: `fifo` is how the event loop picks the next task.
FusionTaskStep(fifo) ==
    \/ \E track_id \in FusionTrackIds, stable \in BOOLEAN :
           FtTrackerPublishes(track_id, stable)
    \/ \E t \in Range(FusionTasks) : FtResume(t, fifo)
    \/ \E t \in Range(FusionTasks) : FtSuspend(t)
    \/ \E t \in Range(FusionTasks) : FtSkip(t)
    \/ \E urgency \in Urgencies : FtNavigation(urgency)
    \/ FtMonitor
    \/ FtGuidance

\* Every interleaving of the tasks.
NextFusionTasks == FusionTaskStep(FALSE)

\* asyncio's event loop: the ready queue is served first in, first out.
NextFusionLoop == FusionTaskStep(TRUE)

(***************************************************************************)
(* Initial state: both buses constructed, no subscriber.                   *)
(***************************************************************************)
FBInit ==
    /\ fb_subscribers = <<>>
    /\ fb_queue = [s \in FBSubs |-> <<>>]
    /\ fb_frame_count = 0
    /\ fb_dropped_count = 0
    /\ fb_pc = [s \in FBSubs |-> IF s \in FBTasks THEN "unstarted" ELSE "idle"]
    /\ fb_received = [s \in FBSubs |-> <<>>]
    /\ fb_shutdown_called = FALSE
    /\ fb_at_shutdown = {}
    /\ fb_raised = FALSE
    /\ fb_since = [s \in FBSubs |-> 0]
    /\ fb_hist = [calls |-> 0,
                  evicted |-> [s \in FBSubs |-> <<>>],
                  enqueued |-> [s \in FBSubs |-> 0]]

RBInit ==
    /\ rb_subscribers = <<>>
    /\ rb_queue = [s \in RBSubs |-> <<>>]
    /\ rb_event_count = 0
    /\ rb_pc = [s \in RBSubs |-> IF s \in RBTasks THEN "unstarted" ELSE "idle"]
    /\ rb_taken = [s \in RBSubs |-> <<>>]
    /\ rb_received = [s \in RBSubs |-> <<>>]
    /\ rb_log = <<>>
    /\ rb_shutdown_called = FALSE
    /\ rb_at_shutdown = {}
    /\ rb_raised = FALSE
    /\ rb_warnings = 0

StagesInit ==
    /\ running = [m \in Modules |-> FALSE]
    /\ announcement_count = 0

CSInit ==
    /\ cs_fields = CSDefaults
    /\ cs_lock = FALSE
    /\ cs_pc = [t \in CSThreads |-> "idle"]
    /\ cs_kwargs = [t \in CSThreads |-> <<>>]
    /\ cs_overlap = [t \in CSThreads |-> FALSE]
    /\ cs_committed = CSDefaults
    /\ cs_snapshot = [view |-> NoSnapshot, overlap |-> FALSE]

VSInit ==
    /\ vs_pc = "loop"
    /\ vs_current_frame_id = 0

\* No call of compute_iou under way.
IoUInit ==
    /\ iou_bbox1 = <<0, 0, 0, 0>>
    /\ iou_bbox2 = <<0, 0, 0, 0>>
    /\ iou_result = 0

TrackerInit ==
    /\ tracker = NewTracker
    /\ tr_assigned = <<>>
    /\ tr_evicted = <<>>

\* No call of match_detections_to_tracks under way.
MatchInit ==
    /\ m_detections = <<>>
    /\ m_tracks = <<>>
    /\ m_iou_threshold = Tenths(3)
    /\ m_result = <<match_detections_to_tracks(<<>>, <<>>, Tenths(3))>>

TrackerStageInit == TrackerInit /\ tr_cycle = NoCycle

FusionInit ==
    /\ fu_last_announced = <<>>
    /\ fu_track_stability = <<>>
    /\ fu_announced = <<>>
    /\ fu_decision = NoDecision
    /\ fu_decisions = 0
    /\ fu_metrics = 0
    /\ announcement_count = 0

\* Every task has registered its queue and waits in get(); nothing published.
FusionTasksInit ==
    /\ ft_queue = [t \in Range(FusionTasks) |-> <<>>]
    /\ ft_waiting = Range(FusionTasks)
    /\ ft_ready = <<>>
    /\ ft_running = "none"
    /\ ft_track_stability = <<>>
    /\ ft_last_announced = <<>>
    /\ ft_count = 0
    /\ ft_published = {}
    /\ ft_eval = NoEval

LockInit ==
    /\ lk_lock = [b \in LockBuses |-> "free"]
    /\ lk_pc = [t \in LockTasks |->
                   IF t = "video_source" THEN LockPc("sleep", "none", "suspended", 0)
                   ELSE IF t = "stop" THEN LockPc("shutdown", "frame", "ready", 0)
                   ELSE LockPc("register", LockBusOf[t], "ready", 0)]
    /\ lk_running = "none"
    /\ lk_queue = [t \in LockConsumers |-> <<>>]
    /\ lk_subscribers = [b \in LockBuses |-> <<>>]
    /\ lk_count = [b \in LockBuses |-> 0]

PipelineInit ==
    /\ pl_origin = <<>>
    /\ pl_failed = <<>>
    /\ pl_propagated = {}

\* No call of compute_urgency under way.
NavInit ==
    /\ nav_args = [label |-> "person", direction |-> "center", zone |-> "far",
                   movement |-> "stationary"]
    /\ nav_result = <<[urgency |-> "low",
                       guidance_text |-> <<"person", " ", "center">>]>>

\* No call of should_announce under way.
PolicyInit ==
    /\ p_last_announced = <<>>
    /\ p_args = [track_id |-> 1, timestamp_ms |-> 0, urgency |-> "critical",
                 stable |-> FALSE, cooldown_ms |-> 0]
    /\ p_result = <<TRUE>>

Init ==
    /\ FBInit /\ RBInit /\ StagesInit /\ CSInit /\ VSInit /\ IoUInit
    /\ TrackerInit /\ MatchInit
    /\ tr_cycle = NoCycle /\ FusionInit /\ PolicyInit /\ NavInit /\ PipelineInit
    /\ LockInit
    /\ FusionTasksInit

(***************************************************************************)
(* The two buses share no state, so a property of one bus is decided by    *)
(* the behaviours of that bus alone: Spec explores the behaviours in which *)
(* the frame bus is exercised and those in which the result bus is.        *)
(***************************************************************************)
Next ==
    \/ (RBInit /\ FBNext)
    \/ (FBInit /\ RBNext)

Spec == Init /\ [][Next]_vars

\* The tasks on the two buses, statement by statement, with the bus locks.
SpecLock == Init /\ [][NextLock]_vars

\* Navigation and fusion under every interleaving of their tasks.
SpecFusionTasks == Init /\ [][NextFusionTasks]_vars

\* Navigation and fusion as asyncio schedules them.
SpecFusionLoop == Init /\ [][NextFusionLoop]_vars

\* The two buses with consumers that keep reading: the event loop runs a
\* consumer whose `await queue.get()` can return, and a generator that was
\* left behind is closed in the end.
SpecLive ==
    /\ Init /\ [][Next]_vars
    /\ \A s \in FBClients : WF_vars(FBGet(s)) /\ WF_vars(FBFinalize(s))
    /\ \A s \in RBClients : WF_vars(RBGet(s)) /\ WF_vars(RBFinalize(s))

\* A pipeline stage on the two buses.
SpecStages == Init /\ [][NextStages]_vars

\* The four stages together, with loop bodies that may raise.
SpecPipeline == Init /\ [][NextPipeline]_vars

\* The four stages together, none failing.  The event loop runs every task
\* that is ready: a task whose `await queue.get()` can return gets its turn.
SpecPipelineLive ==
    /\ Init /\ [][NextPipelineLive]_vars
    /\ WF_vars(LiveDetect)
    /\ WF_vars(LiveTrack)
    /\ WF_vars(LiveNavigate)
    /\ WF_vars(LiveFuse)
    /\ WF_vars(LiveMonitor)

\* Threads calling update() and get_snapshot() on one ControlState.
SpecCS == Init /\ [][NextCS]_vars

\* compute_iou called on any two boxes.
InitIoU ==
    /\ FBInit /\ RBInit /\ StagesInit /\ CSInit /\ VSInit /\ TrackerInit
    /\ MatchInit
    /\ tr_cycle = NoCycle /\ FusionInit /\ PolicyInit /\ NavInit /\ PipelineInit
    /\ LockInit
    /\ FusionTasksInit
    /\ iou_bbox1 \in IoUBoxes
    /\ iou_bbox2 \in IoUBoxes
    /\ iou_result = NoResult

SpecIoU == InitIoU /\ [][ComputeIoU]_vars

\* match_detections_to_tracks called on any detections, tracks and threshold.
InitMatch ==
    /\ FBInit /\ RBInit /\ StagesInit /\ CSInit /\ VSInit /\ IoUInit
    /\ TrackerInit
    /\ tr_cycle = NoCycle /\ FusionInit /\ PolicyInit /\ NavInit /\ PipelineInit
    /\ LockInit
    /\ FusionTasksInit
    /\ m_detections \in DetectionLists
    /\ m_tracks \in TrackDicts
    /\ m_iou_threshold \in IoUThresholds
    /\ m_result = <<>>

SpecMatch == InitMatch /\ [][MatchDetections]_vars

\* Any sequence of calls on one Tracker.
SpecTracker == Init /\ [][NextTracker]_vars

\* should_announce called on any policy state and arguments.
InitPolicy ==
    /\ FBInit /\ RBInit /\ StagesInit /\ CSInit /\ VSInit /\ IoUInit
    /\ TrackerInit /\ MatchInit
    /\ tr_cycle = NoCycle /\ FusionInit /\ NavInit /\ PipelineInit
    /\ LockInit
    /\ FusionTasksInit
    /\ p_last_announced \in LastAnnouncedDicts
    /\ p_args \in PolicyArgs
    /\ p_result = <<>>

SpecPolicy == InitPolicy /\ [][ShouldAnnounce]_vars

\* compute_urgency and generate_guidance_text called on any arguments.
InitNav ==
    /\ FBInit /\ RBInit /\ StagesInit /\ CSInit /\ VSInit /\ IoUInit
    /\ TrackerInit /\ MatchInit
    /\ tr_cycle = NoCycle /\ FusionInit /\ PolicyInit /\ PipelineInit
    /\ LockInit
    /\ FusionTasksInit
    /\ nav_args \in NavArgs
    /\ nav_result = <<>>

SpecNav == InitNav /\ [][ComputeGuidance]_vars

\* A fusion stage that has announced nothing yet, or whose next announcement
\* is the hundredth: 99 guidance events of urgency critical about track 1,
\* all of timestamp_ms 0, have been announced.
FusionEventsInit ==
    \E count \in {0, MetricEvery - 1} :
        /\ announcement_count = count
        /\ fu_last_announced = (IF count = 0 THEN <<>> ELSE (1 :> 0))
        /\ fu_announced = (IF count = 0 THEN <<>> ELSE (1 :> 0))
        /\ fu_track_stability = <<>>
        /\ fu_decision = NoDecision
        /\ fu_decisions = 0
        /\ fu_metrics = 0

InitFusionEvents ==
    /\ FBInit /\ RBInit /\ CSInit /\ VSInit /\ IoUInit
    /\ TrackerInit /\ MatchInit
    /\ tr_cycle = NoCycle /\ PolicyInit /\ NavInit /\ PipelineInit
    /\ LockInit
    /\ FusionTasksInit
    /\ running = [m \in Modules |-> FALSE]
    /\ FusionEventsInit

SpecFusionEvents == InitFusionEvents /\ [][FusionEventsNext]_vars

\* The tracker stage and the fusion stage share no state but ControlState,
\* which neither writes: each is followed on its own.
TrackerStageAlone ==
    /\ FusionInit
    /\ cs_fields.fusion_cooldown_seconds = CSDefaults.fusion_cooldown_seconds
    /\ cs_kwargs["ui"] \in {<<>>} \cup TrackerThresholdKwargs

FusionStageAlone ==
    /\ TrackerStageInit
    /\ cs_fields.tracker_iou_threshold = CSDefaults.tracker_iou_threshold
    /\ cs_kwargs["ui"] \in {<<>>} \cup FusionCooldownKwargs

NextCycles ==
    \/ (TrackerStageAlone /\ TrackerStageNext)
    \/ (FusionStageAlone /\ FusionStageNext)

\* Either stage on its own.
SpecTrackerStage == Init /\ [][TrackerStageAlone /\ TrackerStageNext]_vars
SpecFusionStage == Init /\ [][FusionStageAlone /\ FusionStageNext]_vars

SpecCycles == Init /\ [][NextCycles]_vars

(***************************************************************************)
(* Properties                                                              *)
(***************************************************************************)
FrameIds(q) == SelectSeq(q, LAMBDA x : x # None)

\* C1: on a FrameBus of capacity FBQueueSize >= 1 every subscriber queue
\* holds at most FBQueueSize items in every reachable state, whatever the
\* interleaving of publish, subscribe, consumer reads and shutdown.
C1_QueueNeverExceedsCapacity ==
    \A s \in FBSubs : Len(fb_queue[s]) <= FBQueueSize

\* C1 witness: a full queue that has gone through an eviction and a shutdown.
C1_Witness ==
    \E s \in Range(fb_subscribers) :
        /\ Len(fb_queue[s]) = FBQueueSize
        /\ fb_dropped_count > 0
        /\ fb_shutdown_called

\* The frames queued for a registered subscriber are consecutive frames in
\* publish order, end with the frame published last, and are all newer than
\* what the subscriber has consumed.
FBQueueIsLatest(s) ==
    LET f == FrameIds(fb_queue[s]) IN
    f # <<>> =>
        /\ \A i \in 1..(Len(f) - 1) : f[i + 1].id = f[i].id + 1
        /\ f[Len(f)].id = fb_frame_count
        /\ fb_received[s] # <<>> =>
               fb_received[s][Len(fb_received[s])].id < f[1].id

\* C2: FrameBus.publish(f) on a queue at capacity removes exactly the oldest
\* queued item and then enqueues f, so that after the publish f is the newest
\* item of every subscriber queue; and the frames of a queue are always the
\* most recently published ones the subscriber has not consumed, contiguous
\* and in publish order.
C2_LatestFrameWins ==
    [][ /\ fb_frame_count' = fb_frame_count + 1 =>
            \A s \in Range(fb_subscribers) :
                fb_queue'[s] =
                    (IF Len(fb_queue[s]) >= FBQueueSize
                     THEN Tail(fb_queue[s]) ELSE fb_queue[s])
                    \o <<Frame(fb_frame_count')>>
        /\ \A s \in Range(fb_subscribers') : FBQueueIsLatest(s)' ]_vars

\* C2 witness: a consumer that has read a frame holds a full queue ending in
\* the frame published last, older frames having been evicted.
C2_Witness ==
    \E s \in Range(fb_subscribers) :
        /\ Len(fb_queue[s]) = FBQueueSize
        /\ fb_dropped_count > 0
        /\ fb_received[s] # <<>>
        /\ fb_queue[s][FBQueueSize] = Frame(fb_frame_count)

\* C3: ResultBus.publish(e) leaves a full subscriber queue as it is (e is not
\* delivered to that subscriber), raises nothing to the publisher, and
\* enqueues e for every subscriber whose queue is not full.
C3_DropNewestLeavesQueue ==
    [][ rb_event_count' = rb_event_count + 1 =>
          /\ ~rb_raised'
          /\ \A s \in Range(rb_subscribers) :
                IF Len(rb_queue[s]) >= RBQueueSize
                THEN rb_queue'[s] = rb_queue[s]
                ELSE /\ Len(rb_queue'[s]) = Len(rb_queue[s]) + 1
                     /\ SubSeq(rb_queue'[s], 1, Len(rb_queue[s])) = rb_queue[s]
                     /\ rb_queue'[s][Len(rb_queue'[s])].id = rb_event_count' ]_vars

\* C3 witness: the event published last was dropped for a subscriber whose
\* queue is full of older events and delivered to another subscriber.
C3_Witness ==
    \E s1, s2 \in Range(rb_subscribers) :
        /\ Len(rb_queue[s1]) = RBQueueSize
        /\ \A i \in 1..RBQueueSize : rb_queue[s1][i].id < rb_event_count
        /\ rb_queue[s2] # <<>>
        /\ rb_queue[s2][Len(rb_queue[s2])].id = rb_event_count
        /\ rb_warnings > 0

\* C4: after shutdown() on either bus the end-of-stream sentinel is in the
\* queue of every subscriber registered at that moment, a queue at capacity
\* included (the sentinel displaces a queued item), so that a subscriber
\* that keeps reading observes end-of-stream.  shutdown() is called once, so
\* a subscriber whose queue did not get the sentinel never observes it.
C4_ShutdownReachesEverySubscriber ==
    [][ /\ (~fb_shutdown_called /\ fb_shutdown_called') =>
               \A s \in Range(fb_subscribers) : None \in Range(fb_queue'[s])
        /\ (~rb_shutdown_called /\ rb_shutdown_called') =>
               \A s \in Range(rb_subscribers) : None \in Range(rb_queue'[s])
      ]_vars

\* C7: publish() on either bus never waits for a consumer and never raises:
\* it can be called in every state, whatever the subscriber queues hold, it
\* returns without error, and a subscriber with room in its queue (one that
\* reads) gets the item just published.
C7_PublishNeverBlocksNorRaises ==
    [][ /\ fb_frame_count < MaxFrames => ENABLED FBPublish
        /\ rb_event_count < MaxEvents =>
               \A t \in EventTypes : ENABLED RBPublish(t)
        /\ ~fb_raised' /\ ~rb_raised'
        /\ fb_frame_count' = fb_frame_count + 1 =>
               \A s \in Range(fb_subscribers) :
                   fb_queue'[s][Len(fb_queue'[s])] = Frame(fb_frame_count')
        /\ rb_event_count' = rb_event_count + 1 =>
               \A s \in Range(rb_subscribers) :
                   Len(rb_queue[s]) < RBQueueSize =>
                       rb_queue'[s][Len(rb_queue'[s])].id = rb_event_count'
      ]_vars

\* C7 witness: two ResultBus subscribers that never read have full queues
\* and a later publish has returned, the event dropped for both.
C7_Witness ==
    /\ Len(rb_subscribers) = 2
    /\ \A s \in Range(rb_subscribers) :
           Len(rb_queue[s]) = RBQueueSize /\ rb_taken[s] = <<>>
    /\ rb_warnings >= 2
    /\ ~rb_raised

StrictlyIncreasingIds(seq) ==
    \A i, j \in 1..Len(seq) : i < j => seq[i].id < seq[j].id

\* C8: on both buses what one subscriber receives is a subsequence of the
\* published items in publish order: every received item was published,
\* none is received twice and none before an item published earlier.
C8_ReceivedInPublishOrder ==
    /\ \A s \in FBSubs :
           /\ StrictlyIncreasingIds(fb_received[s])
           /\ \A i \in 1..Len(fb_received[s]) :
                  /\ fb_received[s][i].id \in 1..fb_frame_count
                  /\ fb_received[s][i] = Frame(fb_received[s][i].id)
    /\ \A s \in RBSubs :
           /\ StrictlyIncreasingIds(rb_received[s])
           /\ \A i \in 1..Len(rb_received[s]) :
                  /\ rb_received[s][i].id \in 1..Len(rb_log)
                  /\ rb_received[s][i] = rb_log[rb_received[s][i].id]

\* C8 witness: a ResultBus subscriber has received two events and missed
\* one published between them.
C8_Witness ==
    \E s \in RBSubs :
        /\ Len(rb_received[s]) >= 2
        /\ rb_received[s][2].id > rb_received[s][1].id + 1

TypeOnly(seq, t) == SelectSeq(seq, LAMBDA e : e.type = t)

\* C9: a subscribe_type(T) subscriber is given exactly the events of type T
\* among those it takes off its queue, in publish order and never an event
\* of another type, and its subscription adds exactly one queue to the
\* registry of the bus.
C9_TypeFilter ==
    [][ \A s \in RBSubs : RBFilter[s] # "all" =>
          /\ rb_received'[s] = TypeOnly(rb_taken'[s], RBFilter[s])
          /\ StrictlyIncreasingIds(rb_received'[s])
          /\ (rb_pc[s] = "idle" /\ rb_pc'[s] = "subscribed") =>
                 /\ Len(rb_subscribers') = Len(rb_subscribers) + 1
                 /\ Cardinality({i \in 1..Len(rb_subscribers') :
                                     rb_subscribers'[i] = s}) = 1
      ]_vars

\* C9 witness: the typed subscriber has taken an event of another type off
\* its queue and has been given two events of its own type.
C9_Witness ==
    \E s \in RBSubs :
        /\ RBFilter[s] # "all"
        /\ Len(rb_received[s]) >= 2
        /\ \E i \in 1..Len(rb_taken[s]) : rb_taken[s][i].type # RBFilter[s]

\* With its module stopped, the loop of task t leaves at the first item
\* of its queue that is the sentinel or that its subscription yields.
StageLoopEndsOn(t, q) ==
    \E i \in 1..Len(q) :
        q[i] = None \/ t \in FBTasks \/ RBYields(RBFilter[t], q[i])

\* C5: once stop() has been called on every stage, the shutdown() of a bus
\* leaves every stage loop waiting on that bus with a queue on which it
\* terminates by itself (the sentinel, or an event at which it breaks),
\* whatever the queue held at the moment of shutdown.
C5_StageLoopsEndAfterStopAndShutdown ==
    [][(\A m \in Modules : ~running[m]) =>
         /\ (~fb_shutdown_called /\ fb_shutdown_called') =>
                \A t \in FBTasks :
                    fb_pc[t] = "subscribed" => StageLoopEndsOn(t, fb_queue'[t])
         /\ (~rb_shutdown_called /\ rb_shutdown_called') =>
                \A t \in RBTasks :
                    rb_pc[t] = "subscribed" => StageLoopEndsOn(t, rb_queue'[t])
      ]_vars

\* C6 as stated: with its module stopped, no bus shut down and nothing
\* cancelled, no task is left waiting on an empty queue, where it stays for
\* ever if no further event is published.
C6_StopAloneEndsEveryTask ==
    \A t \in Tasks :
        (/\ ~running[ModuleOf[t]]
         /\ ~fb_shutdown_called /\ ~rb_shutdown_called
         /\ TaskPc(t) = "subscribed")
        => TaskQueue(t) # <<>>

\* Task t is handed, by its subscription, the item at the head of its queue.
TaskIsYielded(t) ==
    /\ TaskPc(t) = "subscribed"
    /\ TaskQueue(t) # <<>>
    /\ Head(TaskQueue(t)) # None
    /\ t \in RBTasks => RBYields(RBFilter[t], Head(TaskQueue(t)))
    /\ TaskQueue(t)' = Tail(TaskQueue(t))

\* C6, amended: after stop() a task of the stage leaves its loop at the
\* next event its subscription yields, processing and publishing nothing;
\* while its queue is empty it stays where it is.
C6_StoppedTaskLeavesAtNextEvent ==
    [][\A t \in Tasks :
         ~running[ModuleOf[t]] =>
             /\ TaskIsYielded(t) =>
                    /\ TaskPc(t)' = "abandoned"
                    /\ rb_event_count' = rb_event_count
                    /\ announcement_count' = announcement_count
             /\ (/\ TaskPc(t) = "subscribed"
                 /\ TaskQueue(t) = <<>>
                 /\ TaskQueue(t)' = <<>>) => TaskPc(t)' = "subscribed"
      ]_vars

C6_Witness ==
    \E t \in Tasks :
        /\ TaskPc(t) = "abandoned"
        /\ ~running[ModuleOf[t]]
        /\ ~fb_shutdown_called /\ ~rb_shutdown_called

\* C10: the dict get_snapshot() returns shows the fields as they were when
\* no update() was under way: all of an update's changes or none of them.
C10_SnapshotNeverPartial ==
    [][\A t \in CSThreads :
         (cs_pc[t] = "snapshot" /\ cs_pc'[t] = "idle") =>
             cs_snapshot'.view = CSSnapshotOf(cs_committed')
      ]_vars

\* A get_snapshot() called while an update had written a part of its fields
\* has returned.
C10_Witness ==
    /\ cs_snapshot.overlap
    /\ cs_snapshot.view # NoSnapshot

\* C11: the fields of ControlState change only in a step of update(), taken
\* by a thread that holds the lock.
C11_FieldsWrittenOnlyUnderLock ==
    [][cs_fields' # cs_fields =>
          cs_lock /\ \E t \in CSThreads : cs_pc[t] = "updating"]_vars

\* The interiors of two boxes do not overlap (exact arithmetic).
InteriorsDisjoint(a, b) ==
    \/ a[1] + a[3] <= b[1] \/ b[1] + b[3] <= a[1]
    \/ a[2] + a[4] <= b[2] \/ b[2] + b[4] <= a[2]
    \/ a[3] = 0 \/ a[4] = 0 \/ b[3] = 0 \/ b[4] = 0

\* C20: compute_iou is symmetric, is 1 on two identical boxes of positive
\* width and height, is 0 on boxes whose interiors do not overlap, and is
\* always in [0, 1].
C20_IoUSymmetricUnitRange ==
    iou_result # NoResult =>
        /\ iou_result = compute_iou(iou_bbox2, iou_bbox1)
        /\ (iou_bbox1 = iou_bbox2 /\ iou_bbox1[3] > 0 /\ iou_bbox1[4] > 0)
               => iou_result = FloatOne
        /\ InteriorsDisjoint(iou_bbox1, iou_bbox2) => iou_result = 0
        /\ 0 <= iou_result /\ iou_result <= FloatOne

\* The calls hold a run of n updates with no mark_missed between them.
HasUpdateRun(calls, n) ==
    \E i \in 1..(Len(calls) - n + 1) :
        \A j \in i..(i + n - 1) : calls[j] = "update"

\* C13: a track is stable exactly from the third update of its first run of
\* three updates with no mark_missed between them; before that run is
\* complete stable is false.
C13_StableAtThirdConsecutiveUpdate ==
    \A id \in DOMAIN tracker.tracks :
        tracker.tracks[id].stable = HasUpdateRun(tracker.tracks[id].calls, 3)

C13_Witness ==
    \E id \in DOMAIN tracker.tracks :
        /\ tracker.tracks[id].calls = <<"update", "update", "update">>
        /\ tracker.tracks[id].stable

\* C14: a stable track stays stable for as long as it is in the table.
C14_StableIsMonotonic ==
    [][\A id \in DOMAIN tracker.tracks \cap DOMAIN tracker'.tracks :
           tracker.tracks[id].stable => tracker'.tracks[id].stable]_vars

C14_Witness ==
    \E id \in DOMAIN tracker.tracks :
        LET track == tracker.tracks[id] IN
        /\ track.stable
        /\ track.calls[Len(track.calls)] = "mark_missed"

\* C15: the ids assigned are 1, 2, 3, ... in creation order, each track
\* sits in the table under its own id, and no id is assigned twice, also
\* after its track was evicted.
C15_TrackIdsIncreaseFromOne ==
    /\ tr_assigned = [i \in 1..Len(tr_assigned) |-> i]
    /\ \A id \in DOMAIN tracker.tracks : tracker.tracks[id].track_id = id
    /\ DOMAIN tracker.tracks \subseteq Range(tr_assigned)

\* A track was created after an earlier one had been evicted.
C15_Witness ==
    \E id \in DOMAIN tracker.tracks :
        /\ tracker.tracks[id].calls = <<"update">>
        /\ \E gone \in Range(tr_evicted) : gone < id

C17_MatchingIsOneToOne ==
    m_result # <<>> =>
        LET r == m_result[1]
            matched_tracks == {r.matches[d] : d \in DOMAIN r.matches}
        IN  /\ \A d1, d2 \in DOMAIN r.matches :
                   r.matches[d1] = r.matches[d2] => d1 = d2
            /\ \A d \in DOMAIN r.matches :
                   compute_iou(m_detections[d + 1], m_tracks[r.matches[d]])
                       >= m_iou_threshold
            /\ DOMAIN r.matches \cup Range(r.unmatched_detections)
                   = {i - 1 : i \in 1..Len(m_detections)}
            /\ DOMAIN r.matches \cap Range(r.unmatched_detections) = {}
            /\ Len(r.unmatched_detections)
                   = Cardinality(Range(r.unmatched_detections))
            /\ matched_tracks \cup Range(r.unmatched_tracks) = DOMAIN m_tracks
            /\ matched_tracks \cap Range(r.unmatched_tracks) = {}
            /\ Len(r.unmatched_tracks) = Cardinality(Range(r.unmatched_tracks))

\* Two detections competed for one track: one was matched to it, the other
\* was left unmatched although its IoU with that track reaches the threshold.
C17_Witness ==
    /\ m_result # <<>>
    /\ \E d \in DOMAIN m_result[1].matches :
       \E u \in Range(m_result[1].unmatched_detections) :
           compute_iou(m_detections[u + 1], m_tracks[m_result[1].matches[d]])
               >= m_iou_threshold

(***************************************************************************)
(* The thresholds of ControlState in the tracker and the fusion stage      *)
(***************************************************************************)
\* C12: each detection cycle of the tracker matches with the
\* tracker_iou_threshold ControlState holds when the cycle runs, and each
\* fusion decision is taken with the fusion_cooldown_seconds held at that
\* moment; so the event processed after an update() is processed with the
\* new value.
C12_ThresholdsReadEveryCycle ==
    [][/\ tr_cycle' # tr_cycle =>
           /\ tr_cycle'.iou_threshold = Tenths(cs_fields.tracker_iou_threshold)
           /\ \E objects \in CycleObjects :
                  LET r == detection_cycle(
                               tracker, objects,
                               Tenths(cs_fields.tracker_iou_threshold))
                  IN  /\ tracker' = r.tracker
                      /\ tr_cycle'.matches = r.cycle.matches
       /\ fu_decisions' # fu_decisions =>
           /\ fu_decision'.cooldown_ms = cs_fields.fusion_cooldown_seconds * 100
           /\ fu_decision'.announced =
                  should_announce(fu_last_announced, fu_decision'.track_id,
                                  fu_decision'.timestamp_ms,
                                  fu_decision'.urgency, fu_decision'.stable,
                                  cs_fields.fusion_cooldown_seconds * 100)]_vars

\* A cycle has run under a threshold set by update(), and left unmatched a
\* detection that the threshold of construction would have matched.
C12_Witness ==
    /\ tr_cycle.iou_threshold = Tenths(7)
    /\ cs_committed.tracker_iou_threshold = 7
    /\ tr_cycle.matches = <<>>
    /\ compute_iou(BoxB, BoxA) >= Tenths(CSDefaults.tracker_iou_threshold)
    /\ DOMAIN tracker.tracks = {1, 2}
    /\ tracker.tracks[1].bbox = BoxA
    /\ tracker.tracks[1].calls = <<"update", "mark_missed", "mark_missed">>
    /\ tracker.tracks[2].bbox = BoxB
    /\ tracker.tracks[2].calls = <<"update", "mark_missed">>

\* A decision has been taken under a cooldown set by update(): a guidance
\* that the cooldown of construction would have suppressed is announced.
C12_WitnessFusion ==
    /\ fu_decision.announced
    /\ fu_decision.urgency # "critical"
    /\ fu_decision.cooldown_ms = 1000
    /\ cs_committed.fusion_cooldown_seconds = 10
    /\ announcement_count = 2
    /\ DOMAIN fu_announced = {fu_decision.track_id}

(***************************************************************************)
(* FusionPolicy                                                            *)
(***************************************************************************)
\* C18: should_announce returns true for urgency critical whatever the
\* other arguments and the recorded announcement; false for a non-critical
\* urgency when stable is false; and for a stable track with non-critical
\* urgency false exactly when an announcement is recorded for the track_id
\* and timestamp_ms - last_announced < cooldown_ms.
C18_ShouldAnnounceCases ==
    p_result # <<>> =>
        LET critical == p_args.urgency = "critical"
            in_cooldown ==
                /\ p_args.track_id \in DOMAIN p_last_announced
                /\ p_args.timestamp_ms - p_last_announced[p_args.track_id]
                       < p_args.cooldown_ms
        IN  /\ critical => p_result[1]
            /\ (~critical /\ ~p_args.stable) => ~p_result[1]
            /\ (~critical /\ p_args.stable) => (~p_result[1] <=> in_cooldown)

\* A stable track with a non-critical urgency is refused within the cooldown.
C18_Witness ==
    /\ p_result = <<FALSE>>
    /\ p_args.stable
    /\ p_args.urgency # "critical"

\* A stable track is announced when the cooldown has just elapsed.
C18_WitnessElapsed ==
    /\ p_result = <<TRUE>>
    /\ p_args.stable
    /\ p_args.urgency # "critical"
    /\ p_args.cooldown_ms > 0
    /\ p_args.track_id \in DOMAIN p_last_announced
    /\ p_args.timestamp_ms - p_last_announced[p_args.track_id]
           = p_args.cooldown_ms

\* C19: when the fusion stage publishes a non-critical announcement for a
\* track_id at timestamp t, the announcement published before it for that
\* track_id, critical or not, has a timestamp of at most t - cooldown_ms,
\* cooldown_ms being the cooldown in force at the decision; and a stable
\* track with no announcement of its own is announced whatever has been
\* announced for other track_ids.
C19_CooldownBetweenAnnouncements ==
    [][fu_decisions' # fu_decisions =>
           LET d == fu_decision'
               cooldown_ms == cs_fields.fusion_cooldown_seconds * 100
           IN  /\ (/\ d.announced
                   /\ d.urgency # "critical"
                   /\ d.track_id \in DOMAIN fu_announced)
                      => fu_announced[d.track_id]
                             <= d.timestamp_ms - cooldown_ms
               /\ (/\ d.urgency # "critical"
                   /\ d.stable
                   /\ d.track_id \notin DOMAIN fu_announced)
                      => d.announced]_vars

\* A second announcement, non-critical, has been published for a track.
C19_Witness ==
    /\ fu_decision.announced
    /\ fu_decision.urgency # "critical"
    /\ fu_decision.cooldown_ms > 0
    /\ announcement_count = 2
    /\ DOMAIN fu_announced = {fu_decision.track_id}

\* A stable track is announced though another track_id has just been.
C19_WitnessOtherTrack ==
    /\ fu_decision.announced
    /\ fu_decision.urgency # "critical"
    /\ fu_decision.cooldown_ms > 0
    /\ announcement_count = 2
    /\ \E other \in DOMAIN fu_announced :
           /\ other # fu_decision.track_id
           /\ fu_announced[other] = fu_decision.timestamp_ms

(***************************************************************************)
(* Navigation                                                              *)
(***************************************************************************)
\* C21: compute_urgency returns a value for each of the nine (zone,
\* movement) combinations: critical for (near, approaching), high for
\* (near, receding) and (near, stationary), medium for (mid, approaching),
\* low for each of the five others.
C21_UrgencyTable ==
    nav_result # <<>> =>
        LET zm == <<nav_args.zone, nav_args.movement>>
            urgency == nav_result[1].urgency
        IN  /\ urgency \in Urgencies
            /\ zm = <<"near", "approaching">> => urgency = "critical"
            /\ zm \in {<<"near", "receding">>, <<"near", "stationary">>}
                   => urgency = "high"
            /\ zm = <<"mid", "approaching">> => urgency = "medium"
            /\ zm \in {<<"mid", "receding">>, <<"mid", "stationary">>,
                        <<"far", "approaching">>, <<"far", "receding">>,
                        <<"far", "stationary">>}
                   => urgency = "low"

\* compute_urgency has returned high for a near track that recedes.
C21_Witness ==
    /\ nav_result # <<>>
    /\ nav_args.zone = "near"
    /\ nav_args.movement = "receding"
    /\ nav_result[1].urgency = "high"

(***************************************************************************)
(* FrameBus: frames dropped for a subscriber that consumes nothing         *)
(***************************************************************************)
\* A registered subscriber that has taken nothing from its queue (a generic
\* consumer: fb_received records what it took).
FBConsumesNothing(s) ==
    /\ fb_pc[s] = "subscribed"
    /\ s \in Range(fb_subscribers)
    /\ fb_received[s] = <<>>

\* Publishes since subscriber s registered its queue.
FBPublishedSince(s) == fb_frame_count - fb_since[s]

C23_WitnessTwo ==
    /\ \A s \in FBClients : FBConsumesNothing(s) /\ fb_since[s] = 0
    /\ fb_frame_count = FBQueueSize + 1
    /\ fb_dropped_count = 2

(***************************************************************************)
(* Matching against the reference greedy procedure                         *)
(***************************************************************************)
\* The reference: among the candidate pairs (IoU >= threshold) whose
\* detection and track are both still unassigned, commit the one of highest
\* IoU, the earliest generated among those of equal IoU; repeat until no
\* candidate is left.
RECURSIVE ReferenceGreedy(_, _, _, _)
ReferenceGreedy(detections, tracks, iou_threshold, matches) ==
    LET pairs == AllPairs(detections, tracks)
        iou(k) == PairIoU(detections, tracks, pairs[k])
        free == {k \in 1..Len(pairs) :
                    /\ iou(k) >= iou_threshold
                    /\ pairs[k][1] \notin DOMAIN matches
                    /\ pairs[k][2] \notin {matches[d] : d \in DOMAIN matches}}
    IN  IF free = {} THEN matches
        ELSE LET best == CHOOSE k \in free :
                             \A j \in free :
                                 iou(j) < iou(k) \/ (iou(j) = iou(k) /\ k <= j)
             IN  ReferenceGreedy(detections, tracks, iou_threshold,
                                 DictSet(matches, pairs[best][1],
                                         pairs[best][2]))

\* C27: the matches match_detections_to_tracks returns are those of the
\* reference greedy procedure (descending IoU; pairs of equal IoU in the
\* order they were generated, detections in list order and for each
\* detection the tracks in the order of the track table), hence a function
\* of the detection list, the track table and the threshold.
C27_MatchesEqualReferenceGreedy ==
    m_result # <<>> =>
        m_result[1].matches =
            ReferenceGreedy(m_detections, m_tracks, m_iou_threshold, <<>>)

\* One detection that overlaps two tracks equally: the track generated
\* first is matched.
C27_Witness ==
    /\ m_result # <<>>
    /\ Len(m_detections) = 1
    /\ DOMAIN m_tracks = {1, 2}
    /\ m_tracks[1] = m_tracks[2]
    /\ PairIoU(m_detections, m_tracks, <<0, 1>>) >= m_iou_threshold
    /\ m_iou_threshold > 0
    /\ m_result[1].matches = (0 :> 1)

(***************************************************************************)
(* The detection cycle of the tracker: what it leaves of the track table   *)
(* and what it publishes                                                   *)
(***************************************************************************)
\* A detection cycle has run: tr_cycle describes the latest one.
CycleRan == tr_cycle.iou_threshold # NoResult

\* The ids of the tracks the latest cycle created.
CycleCreated == DOMAIN tracker.tracks \ DOMAIN tr_cycle.before

\* The latest cycle had no detection and a track table that was not empty.
EmptyCycle ==
    /\ CycleRan
    /\ tr_cycle.objects = <<>>
    /\ DOMAIN tr_cycle.before # {}

\* Track id of the table the cycle started from is in the table, marked
\* missed once by the cycle.
MarkedMissedOnce(id) ==
    /\ id \in DOMAIN tracker.tracks
    /\ tracker.tracks[id].frames_since_update =
           tr_cycle.before[id].frames_since_update + 1
    /\ tracker.tracks[id].consecutive_hits = 0
    /\ tracker.tracks[id].stable = tr_cycle.before[id].stable

\* C24: in a detection cycle with an empty detection list and a non-empty
\* track table every track gets frames_since_update increased by 1 and
\* consecutive_hits set to 0; a track whose frames_since_update then
\* exceeds max_age is removed from the table by the eviction step of that
\* same cycle, and no other track is removed.
C24_EmptyCycleMarksAllMissed ==
    EmptyCycle =>
        \A id \in DOMAIN tr_cycle.before :
            IF tr_cycle.before[id].frames_since_update + 1 > MaxAge
            THEN /\ id \notin DOMAIN tracker.tracks
                 /\ id \in Range(tr_evicted)
            ELSE /\ MarkedMissedOnce(id)
                 /\ id \notin Range(tr_evicted)

\* C24 as stated: in such a cycle every track is marked missed and no track
\* is removed from the table.
C24_NoTrackRemovedInEmptyCycle ==
    EmptyCycle => \A id \in DOMAIN tr_cycle.before : MarkedMissedOnce(id)

\* An empty cycle has marked a track missed that had been seen in the cycle
\* before, and left it in the table.
C24_Witness ==
    /\ EmptyCycle
    /\ \E id \in DOMAIN tr_cycle.before :
           /\ tr_cycle.before[id].frames_since_update = 0
           /\ tr_cycle.before[id].consecutive_hits > 0
           /\ MarkedMissedOnce(id)

\* An empty cycle has removed a track that had reached max_age.
C24_WitnessEvicted ==
    /\ EmptyCycle
    /\ \E id \in DOMAIN tr_cycle.before :
           /\ tr_cycle.before[id].frames_since_update = MaxAge
           /\ id \notin DOMAIN tracker.tracks

\* C25: a track created for an unmatched detection ends the cycle that
\* created it with stable = false, consecutive_hits = 1 and
\* frames_since_update = 0.
C25_CreatedTrackKeepsFirstHit ==
    CycleRan =>
        \A id \in CycleCreated :
            /\ tracker.tracks[id].stable = FALSE
            /\ tracker.tracks[id].consecutive_hits = 1
            /\ tracker.tracks[id].frames_since_update = 0

\* What the cycle does to the track it creates: published with one hit,
\* left in the table marked missed.
C25_CreatedTrackIsMarkedMissed ==
    CycleRan =>
        \A id \in CycleCreated :
            /\ tracker.tracks[id].stable = FALSE
            /\ tracker.tracks[id].consecutive_hits = 0
            /\ tracker.tracks[id].frames_since_update = 1
            /\ tracker.tracks[id].calls = <<"update", "mark_missed">>

\* The number of TrackUpdate events of the latest cycle for track id.
PublishedFor(id) ==
    Cardinality({k \in 1..Len(tr_cycle.published) :
                    tr_cycle.published[k].track_id = id})

\* C26: a detection cycle publishes exactly one TrackUpdate for every track
\* in the table in that cycle, matched, newly created or left unmatched
\* (hence never two with the same track_id for one frame).
C26_OneTrackUpdatePerTrack ==
    CycleRan =>
        \A id \in DOMAIN tr_cycle.before \cup CycleCreated :
            PublishedFor(id) = 1

\* What the cycle publishes: one TrackUpdate for each matched and each
\* created track, none for a track left unmatched.
C26_OneTrackUpdatePerMatchedOrCreated ==
    CycleRan =>
        \A id \in DOMAIN tr_cycle.before \cup CycleCreated :
            PublishedFor(id) =
                IF \/ id \in CycleCreated
                   \/ id \in {tr_cycle.matches[d] : d \in DOMAIN tr_cycle.matches}
                THEN 1 ELSE 0

(***************************************************************************)
(* What the fusion stage publishes                                         *)
(***************************************************************************)
\* C28: the number of SystemMetric events 'fusion.announcements.count'
\* published equals floor(announcement_count / 100) after any sequence of
\* guidance events.
C28_OneMetricPerHundredAnnouncements ==
    fu_metrics = announcement_count \div MetricEvery

\* What the stage does: a turn of the loop publishes a SystemMetric exactly
\* when it leaves announcement_count a positive multiple of 100, whether or
\* not the turn announced.
C28_MetricWheneverCountIsMultiple ==
    fu_decisions > 0 =>
        ((\E k \in 1..Len(fu_decision.published) :
              /\ fu_decision.published[k].type = "SystemMetric"
              /\ fu_decision.published[k].value = announcement_count)
         <=> (announcement_count % MetricEvery = 0 /\ announcement_count > 0))

\* C29: a FusionAnnouncement published has priority 1, 2, 3, 4 for the
\* urgency critical, high, medium, low of the guidance, kind hazard for the
\* labels hazard and obstacle, object for person and vehicle, navigation
\* for any other label, and the text and the timestamp_ms of the guidance.
C29_AnnouncementFields ==
    /\ fu_decisions > 0 =>
           (fu_decision.announced <=>
                \E k \in 1..Len(fu_decision.published) :
                    fu_decision.published[k].type = "FusionAnnouncement")
    /\ \A k \in 1..Len(fu_decision.published) :
           LET e == fu_decision.published[k] IN
           e.type = "FusionAnnouncement" =>
               /\ fu_decision.urgency = "critical" => e.priority = 1
               /\ fu_decision.urgency = "high" => e.priority = 2
               /\ fu_decision.urgency = "medium" => e.priority = 3
               /\ fu_decision.urgency = "low" => e.priority = 4
               /\ e.priority \in 1..4
               /\ fu_decision.label \in {"hazard", "obstacle"}
                      => e.kind = "hazard"
               /\ fu_decision.label \in {"person", "vehicle"}
                      => e.kind = "object"
               /\ fu_decision.label \notin {"hazard", "obstacle", "person",
                                            "vehicle"}
                      => e.kind = "navigation"
               /\ e.text = fu_decision.guidance_text
               /\ e.timestamp_ms = fu_decision.timestamp_ms

\* A guidance of urgency low about a door has been announced, at a
\* timestamp_ms other than 0.
C29_Witness ==
    /\ fu_decision.announced
    /\ fu_decision.label = "door"
    /\ fu_decision.urgency = "low"
    /\ fu_decision.timestamp_ms = 1000
    /\ fu_decision.published =
           <<[type |-> "FusionAnnouncement", timestamp_ms |-> 1000,
              text |-> fu_decision.guidance_text, kind |-> "navigation",
              priority |-> 4]>>

\* A second SystemMetric has been published for the hundredth announcement:
\* by the guidance event after it, which was not announced.
C28_WitnessRepeatedMetric ==
    /\ announcement_count = MetricEvery
    /\ fu_metrics = 2
    /\ ~fu_decision.announced
    /\ Len(fu_decision.published) = 1
    /\ fu_decision.published[1].type = "SystemMetric"

(***************************************************************************)
(* The pipeline from frame to guidance                                     *)
(***************************************************************************)
\* An event of type `type` derived from detection det of frame `frame` has
\* been published on the result bus.
Published(type, frame, det) ==
    \E e \in 1..Len(rb_log) :
        /\ rb_log[e].type = type
        /\ pl_origin[e].frame = frame
        /\ pl_origin[e].det = det

\* The detector has received frame `frame`, returned at least k detections
\* above the threshold and published the DetectionResult holding them.
Detected(frame, k) ==
    \E e \in 1..Len(rb_log) :
        /\ rb_log[e].type = "DetectionResult"
        /\ pl_origin[e].frame = frame
        /\ pl_origin[e].n >= k

\* A publish() call found the queue of a subscriber full.
Overflowed == rb_warnings > 0

\* The events derived from one detection come in the order of the stages.
InStageOrder ==
    \A e \in 1..Len(rb_log) :
        /\ rb_log[e].type = "TrackUpdate" =>
               \E d \in 1..(e - 1) :
                   /\ rb_log[d].type = "DetectionResult"
                   /\ pl_origin[d].frame = pl_origin[e].frame
                   /\ pl_origin[d].n >= pl_origin[e].det
        /\ rb_log[e].type = "NavigationGuidance" =>
               \E u \in 1..(e - 1) :
                   /\ rb_log[u].type = "TrackUpdate"
                   /\ pl_origin[u].frame = pl_origin[e].frame
                   /\ pl_origin[u].det = pl_origin[e].det

\* The detector takes a frame from its queue.
DetectorTakes(frame) ==
    /\ fb_queue["process_frames"] # <<>>
    /\ Head(fb_queue["process_frames"]) = Frame(frame)
    /\ fb_queue'["process_frames"] = Tail(fb_queue["process_frames"])
    /\ fb_frame_count' = fb_frame_count

\* C22: with the four stages started and no queue of the result bus
\* overflowing, a frame the detector receives and returns detections for is
\* published as a DetectionResult in that step, and each of its detections
\* leads, in this order, to a TrackUpdate and to a NavigationGuidance on the
\* result bus.
C22_FrameLeadsToGuidance ==
    /\ [][\A frame \in 1..MaxPipelineFrames :
              DetectorTakes(frame) =>
                  /\ Len(rb_log') = Len(rb_log) + 1
                  /\ rb_log'[Len(rb_log')].type = "DetectionResult"
                  /\ pl_origin'[Len(rb_log')].frame = frame]_vars
    /\ []InStageOrder
    /\ \A frame \in 1..MaxPipelineFrames : \A k \in 1..MaxDetections :
           Detected(frame, k) ~>
               \/ Overflowed
               \/ /\ Published("TrackUpdate", frame, k)
                  /\ Published("NavigationGuidance", frame, k)

\* Both detections of a frame have led to a guidance, no queue having
\* overflowed.
C22_Witness ==
    /\ ~Overflowed
    /\ \A t \in Tasks : TaskPc(t) = "subscribed"
    /\ Detected(1, 2)
    /\ \A k \in 1..2 : /\ Published("TrackUpdate", 1, k)
                       /\ Published("NavigationGuidance", 1, k)

\* The tracker cycle publishes one TrackUpdate per object of the
\* DetectionResult, each for another track: what TrackUpdatesFor rests on.
C22_OneTrackUpdatePerDetection ==
    CycleRan =>
        /\ Len(tr_cycle.published) = Len(tr_cycle.objects)
        /\ \A i, j \in 1..Len(tr_cycle.published) :
               tr_cycle.published[i].track_id = tr_cycle.published[j].track_id
                   => i = j

(***************************************************************************)
(* A loop body that raises                                                 *)
(***************************************************************************)
\* The loop body of task t raises in this step.
RaisesNow(t) == t \in DOMAIN pl_failed' /\ t \notin DOMAIN pl_failed

\* A publish call on the result bus in this step, after a task failed: the
\* first event published is logged and put on the queue of every registered
\* subscriber that had room for it.
LaterPublishSucceeds ==
    (pl_failed # <<>> /\ rb_event_count' > rb_event_count) =>
        /\ rb_log'[rb_event_count + 1].id = rb_event_count + 1
        /\ ~rb_raised'
        /\ \A s \in Range(rb_subscribers) :
               Len(rb_queue[s]) < RBQueueSize =>
                   \E i \in 1..Len(rb_queue'[s]) :
                       rb_queue'[s][i] = rb_log'[rb_event_count + 1]

\* A publish call on the frame bus in this step, after a task failed: the
\* frame is the newest item of every registered queue.
LaterFrameSucceeds ==
    (pl_failed # <<>> /\ fb_frame_count' > fb_frame_count) =>
        /\ ~fb_raised'
        /\ \A s \in Range(fb_subscribers) :
               fb_queue'[s][Len(fb_queue'[s])] = Frame(fb_frame_count')

\* C30: when processing an event raises in the loop of a task, the
\* exception is caught at the loop boundary: the task ends and nothing
\* propagates out of it; the other tasks stay as they were, their modules
\* running and their queues registered, and the publish calls made
\* afterwards on both buses succeed.
C30_FailureStaysInItsTask ==
    [][/\ \A t \in Tasks :
              RaisesNow(t) =>
                  /\ TaskPc(t)' = "abandoned"
                  /\ t \notin pl_propagated'
                  /\ running' = running
                  /\ \A u \in Tasks \ {t} :
                         /\ TaskPc(u)' = TaskPc(u)
                         /\ (u \in Range(rb_subscribers)
                                <=> u \in Range(rb_subscribers'))
                         /\ (u \in Range(fb_subscribers)
                                <=> u \in Range(fb_subscribers'))
       /\ pl_propagated' = {}
       /\ LaterPublishSucceeds
       /\ LaterFrameSucceeds]_vars

\* The navigation task has failed on a TrackUpdate; afterwards a frame was
\* published, taken by the detector and published as a DetectionResult,
\* which the tracker has in its queue.
C30_Witness ==
    /\ "process_tracks" \in DOMAIN pl_failed
    /\ pl_propagated = {}
    /\ TaskPc("process_tracks") = "abandoned"
    /\ \A t \in Tasks \ {"process_tracks"} : TaskPc(t) = "subscribed"
    /\ fb_frame_count > pl_failed["process_tracks"].fb
    /\ rb_event_count > pl_failed["process_tracks"].rb
    /\ rb_log[rb_event_count].type = "DetectionResult"
    /\ pl_origin[rb_event_count].frame = fb_frame_count
    /\ rb_log[rb_event_count] \in Range(rb_queue["process_detections"])
    /\ ~rb_raised /\ ~fb_raised

\* The stability monitor of the fusion stage has failed on a TrackUpdate;
\* afterwards the navigation stage published the guidance for it.
C30_WitnessOtherStagePublishes ==
    /\ "monitor_track_stability" \in DOMAIN pl_failed
    /\ rb_event_count > pl_failed["monitor_track_stability"].rb
    /\ rb_log[rb_event_count].type = "NavigationGuidance"
    /\ TaskPc("process_guidance") = "subscribed"
    /\ rb_log[rb_event_count] \in Range(rb_queue["process_guidance"])

(***************************************************************************)
(* The bus locks                                                           *)
(***************************************************************************)
\* C31: no task holds a bus lock while it is suspended: whenever a lock is
\* held, its holder is the task the event loop is running, inside the body
\* of publish, shutdown, registration or deregistration; no task ever has
\* to wait for a lock or inside a locked body, so a stage that publishes on
\* the ResultBus from inside its own ResultBus consumption loop goes on.
C31_NoLockHeldWhileSuspended ==
    /\ \A b \in LockBuses :
           lk_lock[b] # "free" =>
               /\ lk_lock[b] = lk_running
               /\ lk_pc[lk_running].at = "locked"
               /\ lk_pc[lk_running].bus = b
               /\ lk_pc[lk_running].op \in LockedOps
    /\ \A t \in LockTasks : lk_pc[t].at \notin {"waiting", "putting"}

\* The tracker is inside the locked body of publish() on the ResultBus,
\* called from its own consumption loop, and its own queue is full.
C31_Witness ==
    /\ lk_running = "process_detections"
    /\ lk_pc["process_detections"].op = "publish"
    /\ lk_pc["process_detections"].at = "locked"
    /\ lk_lock["result"] = "process_detections"
    /\ "process_detections" \in Range(lk_subscribers["result"])
    /\ QueueFull(lk_queue["process_detections"], RBQueueMaxsize)

\* The tracker has gone through such a publish with the lock released and,
\* still running, is back at `await queue.get()` with a TrackUpdate of its
\* own at the head of its queue.
C31_WitnessGoesOn ==
    /\ lk_running = "process_detections"
    /\ lk_pc["process_detections"].op = "get"
    /\ lk_pc["process_detections"].at = "call"
    /\ lk_queue["process_detections"] # <<>>
    /\ Head(lk_queue["process_detections"]).type = "TrackUpdate"
    /\ lk_lock = [b \in LockBuses |-> "free"]

(***************************************************************************)
(* The subscriber registry                                                 *)
(***************************************************************************)
\* C32: after shutdown() every queue that was registered at that moment is
\* eventually removed from the registry, its consumer reading on.
C32_RegistryEmptiesAfterShutdown ==
    /\ \A s \in FBClients :
           (s \in fb_at_shutdown) ~> (s \notin Range(fb_subscribers))
    /\ \A s \in RBClients :
           (s \in rb_at_shutdown) ~> (s \notin Range(rb_subscribers))

\* The part of C32 that holds: a queue is in the registry from the start of
\* its subscription until the consuming loop has ended; once the subscriber
\* has observed end-of-stream the queue is out of the registry and no later
\* publish reaches it.
C32_RegisteredWhileConsuming ==
    [][/\ \A s \in FBSubs :
              /\ fb_pc[s] \in {"subscribed", "abandoned"}
                     => s \in Range(fb_subscribers)
              /\ fb_pc[s] = "ended" =>
                     /\ s \notin Range(fb_subscribers)
                     /\ s \notin Range(fb_subscribers')
                     /\ fb_queue'[s] = fb_queue[s]
       /\ \A s \in RBSubs :
              /\ rb_pc[s] \in {"subscribed", "abandoned"}
                     => s \in Range(rb_subscribers)
              /\ rb_pc[s] = "ended" =>
                     /\ s \notin Range(rb_subscribers)
                     /\ s \notin Range(rb_subscribers')
                     /\ rb_queue'[s] = rb_queue[s]]_vars

\* A subscriber whose queue was full at shutdown() has read everything and
\* waits on its empty queue, still registered: no sentinel will come.
C32_WitnessStranded ==
    /\ rb_shutdown_called
    /\ "listener" \in rb_at_shutdown
    /\ "listener" \in Range(rb_subscribers)
    /\ rb_pc["listener"] = "subscribed"
    /\ rb_queue["listener"] = <<>>
    /\ Len(rb_received["listener"]) = RBQueueSize

(***************************************************************************)
(* Degenerate boxes                                                        *)
(***************************************************************************)
\* A box of zero width or zero height.
IsDegenerate(bbox) == bbox[3] = 0 \/ bbox[4] = 0

\* C33: compute_iou returns 0, and raises nothing, on every pair in which
\* a box has zero width or zero height, two identical zero-area boxes
\* included; with a positive IoU threshold a detection with such a box is
\* matched to no track and is returned among the unmatched detections, of
\* which the tracker makes new tracks.
C33_DegenerateBoxIsNeverMatched ==
    m_result # <<>> =>
        \A i \in 1..Len(m_detections) :
            IsDegenerate(m_detections[i]) =>
                /\ \A id \in DOMAIN m_tracks :
                       /\ compute_iou(m_detections[i], m_tracks[id]) = 0
                       /\ compute_iou(m_tracks[id], m_detections[i]) = 0
                /\ compute_iou(m_detections[i], m_detections[i]) = 0
                /\ m_iou_threshold > 0 =>
                       /\ (i - 1) \notin DOMAIN m_result[1].matches
                       /\ (i - 1) \in Range(m_result[1].unmatched_detections)

\* A degenerate detection called against a track of the same degenerate box
\* and another track, with a positive threshold.
C33_Witness ==
    /\ m_result # <<>>
    /\ m_iou_threshold > 0
    /\ m_detections = <<BoxD, BoxA>>
    /\ DOMAIN m_tracks = {1, 2}
    /\ m_tracks[1] = BoxD /\ m_tracks[2] = BoxA
    /\ m_result[1].matches = (1 :> 2)
    /\ m_result[1].unmatched_detections = <<0>>

\* The same on every pair of boxes of compute_iou, whatever the position and
\* the size of the other box.
C33_DegenerateIoUIsZero ==
    (iou_result # NoResult
        /\ (IsDegenerate(iou_bbox1) \/ IsDegenerate(iou_bbox2)))
    => iou_result = 0

\* In the detection cycle, under a positive threshold, the degenerate
\* detection is matched to no track and a new track is created from it.
C33_DegenerateBecomesNewTrack ==
    (CycleRan /\ tr_cycle.iou_threshold > 0) =>
        \A i \in 1..Len(tr_cycle.objects) :
            IsDegenerate(tr_cycle.objects[i]) =>
                /\ (i - 1) \notin DOMAIN tr_cycle.matches
                /\ \E k \in 1..Len(tr_cycle.published) :
                       /\ tr_cycle.published[k].bbox = tr_cycle.objects[i]
                       /\ tr_cycle.published[k].track_id
                              \notin DOMAIN tr_cycle.before

\* A cycle that found a degenerate track in the table and got a detection
\* of the same box.
C33_WitnessCycle ==
    /\ CycleRan /\ tr_cycle.iou_threshold > 0
    /\ \E id \in DOMAIN tr_cycle.before : tr_cycle.before[id].bbox = BoxD
    /\ BoxD \in Range(tr_cycle.objects)

(***************************************************************************)
(* The counters of the FrameBus                                            *)
(***************************************************************************)
\* The frames among the items of a sequence.
FramesIn(seq) == Len(SelectSeq(seq, LAMBDA item : item # None))

RECURSIVE SumOver(_, _)
SumOver(f, S) ==
    IF S = {} THEN 0
    ELSE LET x == CHOOSE x \in S : TRUE IN f[x] + SumOver(f, S \ {x})

\* C34: on a FrameBus, _frame_count is the number of publish calls, with or
\* without subscribers; _dropped_count is the number of items evicted from
\* the subscriber queues; and for every subscriber the frames put on its
\* queue since it subscribed (one per publish call while it is registered)
\* are those it consumed, those evicted from its queue and those in its
\* queue.
C34_FrameBusCounters ==
    /\ fb_frame_count = fb_hist.calls
    /\ fb_dropped_count =
           SumOver([s \in FBSubs |-> Len(fb_hist.evicted[s])], FBSubs)
    /\ \A s \in FBClients :
           /\ fb_hist.enqueued[s] =
                  Len(fb_received[s]) + FramesIn(fb_hist.evicted[s])
                  + FramesIn(fb_queue[s])
           /\ s \in Range(fb_subscribers)
                  => fb_hist.enqueued[s] = fb_frame_count - fb_since[s]

\* Two subscribers, one that subscribed after the first publish call, when
\* _frame_count was 1 already; every term of the balance of the other one
\* is positive.
C34_Witness ==
    /\ fb_since["viewer1"] = 0 /\ fb_since["viewer2"] = 1
    /\ {"viewer1", "viewer2"} \subseteq Range(fb_subscribers)
    /\ Len(fb_received["viewer1"]) > 0
    /\ FramesIn(fb_hist.evicted["viewer1"]) > 0
    /\ FramesIn(fb_queue["viewer1"]) > 0
    /\ fb_hist.enqueued["viewer2"] > 0
    /\ fb_dropped_count > 0

(***************************************************************************)
(* The sentinel of FrameBus.shutdown() under later publish calls           *)
(***************************************************************************)
\* C35: once shutdown() has put the end-of-stream sentinel on a subscriber's
\* queue, no later publish call removes it: the sentinel stays on the queue
\* until the subscriber reads it (after at most capacity - 1 frames).
C35_PublishKeepsTheSentinel ==
    [][\A s \in FBClients :
           (None \in Range(fb_queue[s]) /\ fb_hist'.calls > fb_hist.calls) =>
               None \in Range(fb_queue'[s])]_vars

\* What publish() does to a full queue that holds the sentinel: it evicts
\* the oldest item, and the sentinel once it has become the oldest.  The
\* subscriber is left registered with frames only, as before shutdown().
C35_SentinelEvicted ==
    /\ fb_shutdown_called
    /\ "viewer1" \in fb_at_shutdown
    /\ "viewer1" \in Range(fb_subscribers)
    /\ fb_pc["viewer1"] = "subscribed"
    /\ None \in Range(fb_hist.evicted["viewer1"])
    /\ None \notin Range(fb_queue["viewer1"])
    /\ Len(fb_queue["viewer1"]) = FBQueueSize

\* C36: under every interleaving of _process_guidance and
\* _monitor_track_stability, a guidance that is not critical is announced
\* only for a track_id of which the tracker has already published a
\* TrackUpdate with stable = true.
C36_AnnouncedTrackWasStable ==
    (ft_eval.announced /\ ft_eval.urgency # "critical")
        => \E u \in ft_published :
               u.track_id = ft_eval.track_id /\ u.stable

\* The monitor has applied a stable TrackUpdate and the guidance task has
\* announced a guidance of that track that is not critical, while the other
\* track has only unstable updates.
C36_Witness ==
    /\ ft_eval.announced
    /\ ft_eval.urgency # "critical"
    /\ ft_count > 0
    /\ \E u \in ft_published : u.track_id # ft_eval.track_id /\ ~u.stable

\* C37: the stability value _process_guidance reads for a guidance is the
\* `stable` of the TrackUpdate the guidance was derived from.
C37_GuidanceReadsItsUpdate ==
    ft_eval # NoEval
        => \A u \in ft_published :
               (u.track_id = ft_eval.track_id
                /\ u.timestamp_ms = ft_eval.timestamp_ms)
                   => ft_eval.stable = u.stable

\* The guidance derived from a stable TrackUpdate was evaluated as unstable
\* and, not being critical, was not announced.
C37_StaleStability ==
    /\ ft_eval # NoEval
    /\ ~ft_eval.stable
    /\ ~ft_eval.announced
    /\ \E u \in ft_published :
           /\ u.track_id = ft_eval.track_id
           /\ u.timestamp_ms = ft_eval.timestamp_ms
           /\ u.stable

\* C38: publish puts an event of any type on the registered queue of a
\* subscribe_type(T) subscriber when the queue has room and drops it when
\* the queue is full, so events of other types take up its capacity; they
\* leave the queue only when the subscriber reads them.
C38_TypedQueueHoldsEveryType ==
    [][\A s \in RBClients :
          (RBFilter[s] # "all" /\ s \in Range(rb_subscribers))
              => /\ rb_event_count' > rb_event_count
                    => rb_queue'[s] =
                           IF QueueFull(rb_queue[s], RBQueueMaxsize)
                           THEN rb_queue[s]
                           ELSE Append(rb_queue[s], rb_log'[Len(rb_log')])
                 /\ (rb_queue[s] # <<>> /\ rb_queue'[s] = Tail(rb_queue[s]))
                    => (Head(rb_queue[s]) = None
                        \/ rb_taken'[s] =
                               Append(rb_taken[s], Head(rb_queue[s])))]_vars

\* The last published event is of the subscriber's type T and was dropped
\* for it (neither queued nor read) because its queue was full, while the
\* queue holds an event of another type and fewer than maxsize T events.
C38_Witness ==
    LET s == "typed" IN
    /\ rb_log # <<>>
    /\ s \in Range(rb_subscribers)
    /\ rb_warnings > 0
    /\ rb_log[Len(rb_log)].type = RBFilter[s]
    /\ rb_log[Len(rb_log)] \notin Range(rb_queue[s]) \cup Range(rb_taken[s])
    /\ QueueFull(rb_queue[s], RBQueueMaxsize)
    /\ None \notin Range(rb_queue[s])
    /\ \E e \in Range(rb_queue[s]) : e.type # RBFilter[s]
    /\ Len(TypeOnly(rb_queue[s], RBFilter[s])) < RBQueueMaxsize

\* The IoU of a pair <<det_idx, track_id>> of the call under way, and the
\* candidate pairs: those whose IoU is at least the threshold.
MatchIoU(c) == PairIoU(m_detections, m_tracks, c)

MatchCandidates ==
    {c \in (0..(Len(m_detections) - 1)) \X DOMAIN m_tracks :
        MatchIoU(c) >= m_iou_threshold}

\* C39: after match_detections_to_tracks no unmatched detection and
\* unmatched track have IoU >= iou_threshold, and a candidate pair of the
\* highest IoU is in matches: the pair itself when no other candidate has
\* the same IoU.
C39_MatchingIsMaximal ==
    m_result # <<>> =>
        LET r == m_result[1]
            InMatches(c) == c[1] \in DOMAIN r.matches /\ r.matches[c[1]] = c[2]
        IN  /\ \A d \in Range(r.unmatched_detections) :
                   \A t \in Range(r.unmatched_tracks) :
                       <<d, t>> \notin MatchCandidates
            /\ MatchCandidates # {} =>
                   \E c \in MatchCandidates :
                       /\ InMatches(c)
                       /\ \A o \in MatchCandidates : MatchIoU(o) <= MatchIoU(c)
            /\ \A c \in MatchCandidates :
                   (\A o \in MatchCandidates \ {c} : MatchIoU(o) < MatchIoU(c))
                       => InMatches(c)

\* A call with a positive threshold in which one candidate has the highest
\* IoU, another candidate lost its track to it, and a detection and a track
\* stay unmatched.
C39_Witness ==
    /\ m_result # <<>>
    /\ m_iou_threshold > 0
    /\ m_result[1].unmatched_detections # <<>>
    /\ m_result[1].unmatched_tracks # <<>>
    /\ \E c \in MatchCandidates :
           /\ \A o \in MatchCandidates \ {c} : MatchIoU(o) < MatchIoU(c)
           /\ m_result[1].matches = (c[1] :> c[2])
           /\ MatchCandidates # {c}

\* C40: at the end of every tracker detection cycle every track of the table
\* has frames_since_update <= max_age and is either just updated
\* (frames_since_update = 0, consecutive_hits >= 1) or missed
\* (frames_since_update >= 1, consecutive_hits = 0), never both or neither.
C40_TrackIsUpdatedOrMissed ==
    CycleRan =>
        \A id \in DOMAIN tracker.tracks :
            LET track == tracker.tracks[id]
                updated == /\ track.frames_since_update = 0
                           /\ track.consecutive_hits >= 1
                missed == /\ track.frames_since_update >= 1
                          /\ track.consecutive_hits = 0
            IN  /\ track.frames_since_update <= MaxAge
                /\ updated \/ missed
                /\ ~(updated /\ missed)

\* After a cycle the table holds a track updated in it for the second time
\* running and a track that has been missed max_age times.
C40_Witness ==
    /\ CycleRan
    /\ \E id \in DOMAIN tracker.tracks :
           /\ tracker.tracks[id].frames_since_update = 0
           /\ tracker.tracks[id].consecutive_hits >= 2
    /\ \E id \in DOMAIN tracker.tracks :
           /\ tracker.tracks[id].frames_since_update = MaxAge
           /\ tracker.tracks[id].consecutive_hits = 0

====
